---- MODULE Spec2Model ----
(***************************************************************************)
(* State-machine model of the SuttaCentral offline API server:             *)
(*   - the build controller of app.js (trigger route, bootstrap timer,     *)
(*     worker exit handler, log ring)                      -> SpecCtl       *)
(*   - the sutta resolver of app.js (GET /api/suttas/:uid) -> SpecResolve   *)
(*   - the build pipeline of scripts/build_pipeline.js     -> SpecPipe      *)
(*   - the legacy backfill of scripts/fetch_legacy.js      -> SpecBackfill  *)
(*   - the index builder of scripts/build_index.js         -> SpecIndex     *)
(*   - the server beside its worker and the index file     -> SpecServe     *)
(*   - the public endpoints beside the pipeline            -> SpecPublish   *)
(*   - the log ring under many appends                     -> SpecRing      *)
(*   - the pruning of scripts/cleanup_bilara.js            -> SpecPrune     *)
(*   - the menu flattening of scripts/flatten_menus.js     -> SpecFlatten   *)
(*   - the facet path inference of the resolver            -> SpecPaths     *)
(* The parts share one set of variables; each specification moves its own  *)
(* variables and leaves the others at their initial value.                 *)
(***************************************************************************)
EXTENDS Integers, Sequences, FiniteSets, TLC

VARIABLES
  \* ---- build controller (app.js) ----
  buildProcess,   \* the global run handle: NullProc, UndefProc or a pid
  procs,          \* pid -> "unborn" | "alive" | "exited"
  procExit,       \* pid -> "null" | "0" | "1"   (ChildProcess.exitCode)
  buildLogs,      \* the log ring
  pipe,           \* pid -> lines written by the worker, not yet delivered
  written,        \* number of lines the workers have written so far
  bootTimer,      \* "none" | "armed" | "fired"  (setTimeout of app.js:62)
  scriptExists,   \* scripts/build_pipeline.js is on disk
  trig,           \* outcome of the last POST /api/admin/build-offline
  \* ---- resolver (app.js) ----
  suttaIndex,     \* the index loaded at startup
  req,            \* the GET /api/suttas/:uid request, with the facet files on disk
  resp,           \* its response
  \* ---- pipeline (scripts/build_pipeline.js) and the disk ----
  run,            \* number of pipeline runs started so far
  pc,             \* position of the latest run in buildPipeline
  events,         \* what the latest run did so far, in order
  versionInfo,    \* the versionInfo object of the latest run (step 2)
  exitCode,       \* exit code of the latest run: "null" | "0" | "1"
  localRev,       \* revision of the local corpus checkout, 0 = no .git
  remoteRev,      \* head of the published branch
  indexFile,      \* data/generated/sutta_index.json exists
  menusDir,       \* data/menus exists
  zipFile,        \* pwa/public/data.zip
  versionFile,    \* pwa/public/data.json
  \* ---- legacy backfill (scripts/fetch_legacy.js) ----
  bfRun,          \* number of fetch_legacy.js invocations started so far
  bfPc,           \* position of the latest invocation in run()
  bfIndex,        \* the index file the invocation reads
  legacyFile,     \* legacy_sutta_map.json on disk
  legacyMap,      \* the legacyMap object of the latest invocation (its keys)
  loaded,         \* the keys legacyMap had when the invocation loaded it
  todo,           \* the leaves of missingLeaves the loop has not visited yet
  count,          \* the counter of successful additions
  lastFetch,      \* the identifier of the latest network fetch, its invocation, its outcome
  fetched,        \* the identifiers the latest invocation issued a fetch for
  legacyDocs,     \* the legacy documents the latest invocation wrote: in full, or opened only
  report,         \* the figures the latest invocation printed at its end
  \* ---- index builder (scripts/build_index.js) ----
  corpus,         \* the root and translation trees, in the order the walks list them
  indexOut,       \* data/generated/sutta_index.json
  builtFrom,      \* the corpus the latest build walked
  firstBuild,     \* the corpus and the index of the first build
  builds,         \* number of builds so far
  edits,          \* number of changes made to the corpus so far
  \* ---- the server and the files around it ----
  wrote,          \* the workers that wrote the index file
  publicZip,      \* public/data.zip beside app.js
  publicVersion,  \* public/data.json beside app.js
  download,       \* the latest answer of GET /api/public/download-data
  dataVersion,    \* the latest answer of GET /api/public/data-version
  appended,       \* the lines passed to appendLog since the last reset
  \* ---- the stage scripts working on the disk, and the path inference ----
  disk,           \* the files under the server directory, each a path
  diskBefore,     \* the files there were when cleanup_bilara.js started
  pruned,         \* cleanup_bilara.js has run
  menus,          \* data/menus: its directories and its files
  menusBefore,    \* data/menus when flatten_menus.js started
  flattened,      \* flatten_menus.js has run
  pathReq,        \* the index entry of a request: its root and translation paths
  inferred        \* the facet paths the route derived from it

ctlVars  == <<buildProcess, procs, procExit, buildLogs, pipe, written,
              bootTimer, scriptExists, trig>>
resVars  == <<suttaIndex, req, resp>>
pipeVars == <<run, pc, events, versionInfo, exitCode, localRev, remoteRev,
              indexFile, menusDir, zipFile, versionFile>>
bfVars   == <<bfRun, bfPc, bfIndex, legacyFile, legacyMap, loaded, todo, count, lastFetch,
              fetched, legacyDocs, report>>
\* the variables of the parts added to the three above
ixVars   == <<corpus, indexOut, builtFrom, firstBuild, builds, edits>>
srvVars  == <<wrote, publicZip, publicVersion, download, dataVersion, appended>>
fsVars   == <<disk, diskBefore, pruned, menus, menusBefore, flattened, pathReq, inferred>>
auxVars  == <<bfVars, ixVars, srvVars, fsVars>>
\* all but one group
notBf    == <<ctlVars, resVars, pipeVars, ixVars, srvVars, fsVars>>
notIx    == <<ctlVars, resVars, pipeVars, bfVars, srvVars, fsVars>>
notFs    == <<ctlVars, resVars, pipeVars, bfVars, ixVars, srvVars>>
vars     == <<ctlVars, resVars, pipeVars, auxVars>>

\* JavaScript's null and undefined as values of the run handle; pids are 1, 2, ...
NullProc  == 0
UndefProc == 0 - 1

(***************************************************************************)
(* Bounds                                                                  *)
(***************************************************************************)
MaxSpawn == 3    \* worker processes forked in one behaviour
MaxLines == 1    \* lines the workers write to their stdout/stderr pipes
MaxRuns  == 3    \* pipeline runs in one behaviour
MaxRev   == 2    \* revisions published upstream

(***************************************************************************)
(* Build controller                                                        *)
(***************************************************************************)
Pids == 1..MaxSpawn

LogCap == 1000

\* (variant) the ring drops the newest line instead of the oldest
appendLogDropsNewest(logs, line) ==
  LET pushed == Append(logs, line)
  IN  IF Len(pushed) > LogCap THEN SubSeq(pushed, 1, Len(pushed) - 1) ELSE pushed

\* appendLog: push, then drop the oldest line once the ring exceeds LogCap
appendLog(logs, line) ==
  LET pushed == Append(logs, line)
  IN  IF Len(pushed) > LogCap THEN Tail(pushed) ELSE pushed

RECURSIVE appendAll(_, _)
appendAll(logs, lines) ==
  IF lines = <<>> THEN logs
  ELSE appendAll(appendLog(logs, Head(lines)), Tail(lines))

Alive == {p \in Pids : procs[p] = "alive"}

NextPid == CHOOSE p \in Pids : procs[p] = "unborn" /\ \A q \in Pids : q < p => procs[q] # "unborn"

CanFork == \E p \in Pids : procs[p] = "unborn"

\* the guard of the trigger route: a handle is set, was not kill()ed (the
\* server never calls kill, so .killed stays false) and has not exited
IsBuildRunning ==
  /\ buildProcess \notin {NullProc, UndefProc}
  /\ procExit[buildProcess] = "null"

\* GET /api/admin/build-status: isRunning = buildProcess !== null
BuildStatusRunning == buildProcess # NullProc

\* (variant) the trigger keeps the lines of the earlier run
triggerKeepsLogs ==
  IF ~scriptExists
  THEN [logs |-> buildLogs, procs |-> procs, handle |-> buildProcess, ret |-> UndefProc]
  ELSE LET p == NextPid
       IN  [logs   |-> appendLog(buildLogs, [run |-> p, text |-> "start"]),
            procs  |-> [procs EXCEPT ![p] = "alive"],
            handle |-> p,
            ret    |-> p]

\* triggerOfflineBuild: the values of buildLogs, procs and buildProcess after
\* the call, and its return value
triggerOfflineBuild ==
  IF ~scriptExists
  THEN [logs |-> buildLogs, procs |-> procs, handle |-> buildProcess, ret |-> UndefProc]
  ELSE LET p == NextPid
       IN  [logs   |-> appendLog(<<>>, [run |-> p, text |-> "start"]),
            procs  |-> [procs EXCEPT ![p] = "alive"],
            handle |-> p,
            ret    |-> p]

\* POST /api/admin/build-offline
PostBuild ==
  /\ (scriptExists /\ ~IsBuildRunning) => CanFork
  /\ IF IsBuildRunning
     THEN /\ trig' = [status |-> 409, busy |-> Alive # {}, spawned |-> FALSE,
                      logsKept |-> TRUE, handleKept |-> TRUE]
          /\ UNCHANGED <<buildProcess, procs, buildLogs>>
     ELSE LET t == triggerOfflineBuild
          IN  /\ buildLogs' = t.logs
              /\ procs' = t.procs
              /\ buildProcess' = t.handle
              /\ trig' = [status     |-> IF t.handle \in {NullProc, UndefProc} THEN 500 ELSE 202,
                          busy       |-> Alive # {},
                          spawned    |-> t.procs # procs,
                          logsKept   |-> t.logs = buildLogs,
                          handleKept |-> t.handle = buildProcess]
  /\ UNCHANGED <<procExit, pipe, written, bootTimer, scriptExists>>
  /\ UNCHANGED <<resVars, pipeVars, auxVars>>

\* the setTimeout callback armed at startup when the index file is absent
BootTimerFire ==
  /\ bootTimer = "armed"
  /\ scriptExists => CanFork
  /\ LET t == triggerOfflineBuild
     IN  /\ buildLogs' = t.logs
         /\ procs' = t.procs
         /\ buildProcess' = t.ret
  /\ bootTimer' = "fired"
  /\ UNCHANGED <<procExit, pipe, written, scriptExists, trig>>
  /\ UNCHANGED <<resVars, pipeVars, auxVars>>

\* the worker writes one line to its stdout or stderr pipe
WorkerWrite(p, stream) ==
  /\ procs[p] = "alive"
  /\ written < MaxLines
  /\ written' = written + 1
  /\ pipe' = [pipe EXCEPT ![p] = Append(@, stream)]
  /\ UNCHANGED <<buildProcess, procs, procExit, buildLogs, bootTimer, scriptExists, trig>>
  /\ UNCHANGED <<resVars, pipeVars, auxVars>>

\* the line a "data" handler appends for a line of the given stream
DataLine(p, stream) ==
  [run |-> p, text |-> IF stream = "stderr" THEN "ERROR" ELSE "out"]

\* a "data" event on a pipe of worker p carrying its first k pending lines
PipeData(p, k) ==
  /\ k \in 1..Len(pipe[p])
  /\ buildLogs' = appendAll(buildLogs, [i \in 1..k |-> DataLine(p, pipe[p][i])])
  /\ pipe' = [pipe EXCEPT ![p] = SubSeq(@, k + 1, Len(@))]
  /\ UNCHANGED <<buildProcess, procs, procExit, written, bootTimer, scriptExists, trig>>
  /\ UNCHANGED <<resVars, pipeVars, auxVars>>

\* the lines the exit handler appends
ExitLines(p, code) ==
  IF code = "0"
  THEN <<[run |-> p, text |-> "exited"], [run |-> p, text |-> "complete"]>>
  ELSE <<[run |-> p, text |-> "exited"]>>

\* the handle after the exit handler of worker p ran
HandleAfterExit(p) == NullProc

\* worker p terminates with the given code; its "exit" handler runs
WorkerExit(p, code) ==
  /\ procs[p] = "alive"
  /\ procs' = [procs EXCEPT ![p] = "exited"]
  /\ procExit' = [procExit EXCEPT ![p] = code]
  /\ buildLogs' = appendAll(buildLogs, ExitLines(p, code))
  /\ buildProcess' = HandleAfterExit(p)
  /\ UNCHANGED <<pipe, written, bootTimer, scriptExists, trig>>
  /\ UNCHANGED <<resVars, pipeVars, auxVars>>

NoTrig == [status |-> 0, busy |-> FALSE, spawned |-> FALSE,
           logsKept |-> TRUE, handleKept |-> TRUE]

(***************************************************************************)
(* Resolver: GET /api/suttas/:uid                                          *)
(***************************************************************************)
MaxAuthors == 2   \* translation authors of one index entry

Authors == {"sujato", "brahmali", "thanissaro", "anandajoti"}
Uids    == {"dn1", "zz9", "constructor"}
\* what a request may carry as ?author= ; "" stands for no author parameter
ReqAuthors == Authors \cup {"", "constructor"}

\* names every JavaScript object inherits from Object.prototype
ProtoProps == {"constructor", "toString"}

Facets == {"root", "translation", "html", "comment", "variant", "reference"}
FileStates == {"ok", "missing", "unparsable"}

\* A JavaScript object with string keys: its own keys in insertion order
\* (the order of Object.keys) and their values.
JsObj(keys, val) == [keys |-> keys, val |-> val]
EmptyObj == [keys |-> <<>>, val |-> <<>>]

JsHasOwn(obj, k) == \E i \in 1..Len(obj.keys) : obj.keys[i] = k

\* obj[k]: an own property, else a property inherited from Object.prototype
\* (a function), else undefined
JsGet(obj, k) ==
  IF JsHasOwn(obj, k) THEN [kind |-> "own", v |-> obj.val[k]]
  ELSE IF k \in ProtoProps THEN [kind |-> "inherited", v |-> "function"]
  ELSE [kind |-> "undefined", v |-> "undefined"]

\* own values of the index and of a translations map are objects and
\* non-empty strings, inherited ones are functions: all truthy
Truthy(g) == g.kind # "undefined"

IsString(g) == g.kind = "own"

\* the paths build_index.js records for an identifier
RootPath(uid) == <<"sutta", uid, "_root-pli-ms.json">>
TransPath(uid, a) == <<"sutta", uid, "_translation-en-", a, ".json">>

NoDupSeqs(S, n) ==
  {q \in UNION {[1..k -> S] : k \in 0..n} :
     \A i, j \in 1..Len(q) : i # j => q[i] # q[j]}

\* the entries build_index.js can write for uid: a root or null, and the
\* translations in the order the author directories were listed
EntriesOf(uid) ==
  {e \in [root : {RootPath(uid), <<"null">>},
          translations : {JsObj(q, [a \in {q[i] : i \in 1..Len(q)} |-> TransPath(uid, a)]) :
                            q \in NoDupSeqs(Authors, MaxAuthors)}] :
     e.root # <<"null">> \/ Len(e.translations.keys) > 0}

\* the indexes the server can have loaded: none (no index file), or one
\* holding an entry for dn1
Indexes ==
  {EmptyObj} \cup {JsObj(<<"dn1">>, [u \in {"dn1"} |-> e]) : e \in EntriesOf("dn1")}

\* fields of a value that is not an index entry (an inherited function)
NonEntry == [root |-> <<"undefined">>, translations |-> EmptyObj]

EntryOf(g) == IF g.kind = "own" THEN g.v ELSE NonEntry

RootSet(entry) == entry.root \notin {<<"null">>, <<"undefined">>}

NoContent == [kind |-> "empty", tree |-> "", rel |-> <<>>, author |-> ""]

\* readJson(path) || {} : the parsed file, or {} when it is missing or unparsable
readJson(fs, facet, tree, rel, author) ==
  IF fs[facet] = "ok"
  THEN [kind |-> "json", tree |-> tree, rel |-> rel, author |-> author]
  ELSE NoContent

\* the selection taking the requested author without looking it up
SelectTranslationTrustsRequest(entry, requestedAuthor) ==
  LET tr == entry.translations
  IN  IF Len(tr.keys) > 0
      THEN LET a == IF requestedAuthor # "" THEN requestedAuthor ELSE tr.keys[1]
           IN  [author |-> a,
                path |-> IF JsHasOwn(tr, a) THEN JsGet(tr, a)
                         ELSE [kind |-> "undefined", v |-> "undefined"]]
      ELSE [author |-> "null", path |-> [kind |-> "undefined", v |-> "undefined"]]

\* step 2 of the route: the selected author and the value taken for its path
SelectTranslation(entry, requestedAuthor) ==
  LET tr == entry.translations
      availableAuthors == tr.keys
  IN  IF Len(availableAuthors) > 0
      THEN IF requestedAuthor # "" /\ Truthy(JsGet(tr, requestedAuthor))
           THEN [author |-> requestedAuthor, path |-> JsGet(tr, requestedAuthor)]
           ELSE LET a == IF Truthy(JsGet(tr, "sujato")) THEN "sujato"
                         ELSE IF Truthy(JsGet(tr, "brahmali")) THEN "brahmali"
                         ELSE availableAuthors[1]
                IN  [author |-> a, path |-> JsGet(tr, a)]
      ELSE [author |-> "null", path |-> [kind |-> "undefined", v |-> "undefined"]]

\* the guard of the route: the index has something under uid
EntryFound(index, uid) == Truthy(JsGet(index, uid))

NoResp == [status |-> 0, author_uid |-> "", available_authors |-> <<>>,
           facets |-> [f \in Facets |-> NoContent]]

\* the response of GET /api/suttas/:uid
Resolve(index, uid, requestedAuthor, fs) ==
  IF ~EntryFound(index, uid)
  THEN [NoResp EXCEPT !.status = 404]
  ELSE
    LET entry == EntryOf(JsGet(index, uid))
        sel   == SelectTranslation(entry, requestedAuthor)
        hasTr == sel.author # "null" /\ Truthy(sel.path)
        rel   == IF IsString(sel.path) THEN sel.path.v ELSE <<>>
    IN  IF hasTr /\ ~IsString(sel.path)
        THEN \* path.join rejects a non-string argument: TypeError, HTTP 500
             [NoResp EXCEPT !.status = 500]
        ELSE [status |-> 200,
              author_uid |-> sel.author,
              available_authors |-> entry.translations.keys,
              facets |->
                [f \in Facets |->
                   CASE f = "root" ->
                          IF RootSet(entry)
                          THEN readJson(fs, f, "root/pli/ms", entry.root, "")
                          ELSE NoContent
                     [] f = "translation" ->
                          IF hasTr
                          THEN readJson(fs, f, "translation/en", rel, sel.author)
                          ELSE NoContent
                     [] f = "html" ->
                          IF RootSet(entry)
                          THEN readJson(fs, f, "html/pli/ms", entry.root, "")
                          ELSE NoContent
                     [] f = "comment" ->
                          IF hasTr
                          THEN readJson(fs, f, "comment/en", rel, sel.author)
                          ELSE NoContent
                     [] f = "variant" ->
                          IF RootSet(entry)
                          THEN readJson(fs, f, "variant/pli/ms", entry.root, "")
                          ELSE NoContent
                     [] f = "reference" ->
                          IF RootSet(entry)
                          THEN readJson(fs, f, "reference/pli/ms", entry.root, "")
                          ELSE NoContent]]

NoReq == [uid |-> "", author |-> "", fs |-> [f \in Facets |-> "missing"]]

\* the server answers the pending request; req.fs is the state of the facet
\* files it finds on disk
GetSutta ==
  /\ resp.status = 0
  /\ resp' = Resolve(suttaIndex, req.uid, req.author, req.fs)
  /\ UNCHANGED <<suttaIndex, req>>
  /\ UNCHANGED <<ctlVars, pipeVars, auxVars>>

\* data.zip and data.json before any run wrote them
NoZip     == [state |-> "absent", rev |-> 0]
NoVersion == [exists |-> FALSE, commit |-> 0, date |-> "", run |-> 0]

(***************************************************************************)
(* Pipeline: scripts/build_pipeline.js, one worker process per run.        *)
(* Runs are started one after the other; pc, events, versionInfo and       *)
(* exitCode are those of the latest run.  A revision is a number >= 1;     *)
(* commit 0 in a version record stands for the string "unknown".           *)
(***************************************************************************)
Note(what) == events' = events \o what

\* process.exit(code), or the process ending once buildPipeline returned
Exit(code) ==
  /\ pc' = "exited"
  /\ exitCode' = code

Goto(where) ==
  /\ pc' = where
  /\ UNCHANGED exitCode

\* a rejection of buildPipeline() reaches the .catch at the end of the script
FatalError == Exit("1")

\* the worker is forked and buildPipeline starts
StartRun ==
  /\ pc \in {"idle", "exited"}
  /\ run < MaxRuns
  /\ run' = run + 1
  /\ pc' = "step1"
  /\ events' = <<>>
  /\ versionInfo' = NoVersion
  /\ exitCode' = "null"
  /\ UNCHANGED <<localRev, remoteRev, indexFile, menusDir, zipFile, versionFile>>
  /\ UNCHANGED <<ctlVars, resVars, auxVars>>

\* (variant) a failed clone is caught like a failed pull and the run goes on
CloneFailedAbsorbed == Goto("step2")

\* a failed git clone: runCommand rethrows, nothing around the call catches
CloneFailed == FatalError

\* step 1 without .git: git clone; runCommand rethrows a failure
SyncClone(ok) ==
  /\ pc = "step1"
  /\ localRev = 0
  /\ IF ok
     THEN /\ localRev' = remoteRev
          /\ Note(<<"step1", "cloned">>)
          /\ Goto("step2")
     ELSE /\ UNCHANGED localRev
          /\ Note(<<"step1", "clone_failed">>)
          /\ CloneFailed
  /\ UNCHANGED <<run, versionInfo, remoteRev, indexFile, menusDir, zipFile, versionFile>>
  /\ UNCHANGED <<ctlVars, resVars, auxVars>>

\* (variant) an up-to-date corpus never ends the run early
AfterPullNoShortCut(pullOk, upToDate, hasIndex) == "step2"

\* where step 1 goes after git pull: "exit0" or "step2"
AfterPull(pullOk, upToDate, hasIndex) ==
  IF pullOk /\ upToDate /\ hasIndex THEN "exit0" ELSE "step2"

\* what the pull observed
PullNotes(pullOk, upToDate, hasIndex) ==
  IF ~pullOk THEN <<"step1", "pull_failed">>
  ELSE IF ~upToDate THEN <<"step1", "pulled">>
  ELSE <<"step1", "up_to_date", IF hasIndex THEN "index_exists" ELSE "index_missing">>

\* (variant) a failed pull is rethrown and ends the run
SyncPullFatal(ok) ==
  /\ pc = "step1"
  /\ localRev # 0
  /\ LET upToDate == localRev = remoteRev
     IN  /\ localRev' = IF ok THEN remoteRev ELSE localRev
         /\ Note(PullNotes(ok, upToDate, indexFile))
         /\ IF ~ok THEN FatalError
            ELSE IF AfterPull(ok, upToDate, indexFile) = "exit0"
            THEN Exit("0")
            ELSE Goto("step2")
  /\ UNCHANGED <<run, versionInfo, remoteRev, indexFile, menusDir, zipFile, versionFile>>
  /\ UNCHANGED <<ctlVars, resVars, auxVars>>

\* step 1 with .git: git pull origin published
SyncPull(ok) ==
  /\ pc = "step1"
  /\ localRev # 0
  /\ LET upToDate == localRev = remoteRev
     IN  /\ localRev' = IF ok THEN remoteRev ELSE localRev
         /\ Note(PullNotes(ok, upToDate, indexFile))
         /\ IF AfterPull(ok, upToDate, indexFile) = "exit0"
            THEN Exit("0")
            ELSE Goto("step2")
  /\ UNCHANGED <<run, versionInfo, remoteRev, indexFile, menusDir, zipFile, versionFile>>
  /\ UNCHANGED <<ctlVars, resVars, auxVars>>

\* (variant) step 2 hands over to the pruning, leaving out the menu fetch
CommitInfoSkipsMenus(hashOk, dateOk) ==
  /\ pc = "step2"
  /\ versionInfo' =
       [exists |-> TRUE,
        commit |-> IF hashOk THEN localRev ELSE 0,
        date   |-> IF hashOk /\ dateOk THEN "commit" ELSE "now",
        run    |-> run]
  /\ Note(IF hashOk /\ dateOk THEN <<"step2">> ELSE <<"step2", "commit_info_failed">>)
  /\ Goto("step4")
  /\ UNCHANGED <<run, localRev, remoteRev, indexFile, menusDir, zipFile, versionFile>>
  /\ UNCHANGED <<ctlVars, resVars, auxVars>>

\* step 2: git rev-parse HEAD, then git show for the commit date; a failure of
\* either leaves the defaults of what was not yet assigned
CommitInfo(hashOk, dateOk) ==
  /\ pc = "step2"
  /\ versionInfo' =
       [exists |-> TRUE,
        commit |-> IF hashOk THEN localRev ELSE 0,
        date   |-> IF hashOk /\ dateOk THEN "commit" ELSE "now",
        run    |-> run]
  /\ Note(IF hashOk /\ dateOk THEN <<"step2">> ELSE <<"step2", "commit_info_failed">>)
  /\ Goto("step3")
  /\ UNCHANGED <<run, localRev, remoteRev, indexFile, menusDir, zipFile, versionFile>>
  /\ UNCHANGED <<ctlVars, resVars, auxVars>>

\* the exit status of master_fetch.js: fetch failures are absorbed by
\* fetchJson and the flatten failure by main's try/catch; reading the menus
\* directory throws when no fetch ever created it
MasterFetchStatus(netUp, flattenOk, hadMenus) ==
  IF netUp \/ hadMenus THEN "0" ELSE "1"

\* step 3: node scripts/master_fetch.js
MenuFetch(netUp, flattenOk) ==
  /\ pc = "step3"
  /\ menusDir' = (menusDir \/ netUp)
  /\ LET st == MasterFetchStatus(netUp, flattenOk, menusDir)
         seen == (IF netUp THEN <<>> ELSE <<"menu_fetch_failed">>)
                  \o (IF st = "0" /\ ~flattenOk THEN <<"flatten_failed">> ELSE <<>>)
                  \o (IF st = "0" THEN <<>> ELSE <<"stage_failed">>)
     IN  /\ Note(<<"step3">> \o seen)
         /\ IF st = "0" THEN Goto("step4") ELSE FatalError
  /\ UNCHANGED <<run, versionInfo, localRev, remoteRev, indexFile, zipFile, versionFile>>
  /\ UNCHANGED <<ctlVars, resVars, auxVars>>

\* (variant) runCommand logs the failure and returns instead of rethrowing
StageFailedSwallowed(next) == Goto(next)

\* what happens when a stage script exits non-zero: runCommand rethrows
StageFailed(next) == FatalError

\* steps 4, 5, 6: node scripts/<stage>.js via runCommand
RunStage(here, next, ok) ==
  /\ pc = here
  /\ IF ok
     THEN /\ Note(<<here>>)
          /\ Goto(next)
     ELSE /\ Note(<<here, "stage_failed">>)
          /\ StageFailed(next)

\* step 4: node scripts/cleanup_bilara.js
Prune(ok) ==
  /\ RunStage("step4", "step5", ok)
  /\ UNCHANGED <<run, versionInfo, localRev, remoteRev, indexFile, menusDir, zipFile, versionFile>>
  /\ UNCHANGED <<ctlVars, resVars, auxVars>>

\* step 5: node scripts/build_index.js writes the index file
BuildIndex(ok) ==
  /\ RunStage("step5", "step6", ok)
  /\ indexFile' = (indexFile \/ ok)
  /\ UNCHANGED <<run, versionInfo, localRev, remoteRev, menusDir, zipFile, versionFile>>
  /\ UNCHANGED <<ctlVars, resVars, auxVars>>

\* step 6: node scripts/fetch_legacy.js
Backfill(ok) ==
  /\ RunStage("step6", "step7", ok)
  /\ UNCHANGED <<run, versionInfo, localRev, remoteRev, indexFile, menusDir, zipFile, versionFile>>
  /\ UNCHANGED <<ctlVars, resVars, auxVars>>

\* the catch around steps 7-8: process.exit(1)
BundleFailed == Exit("1")

\* step 7, first half: generateBundle scans the data directory and opens the
\* write stream on data.zip, which truncates the file; a throw while
\* scanning leaves the old archive
BundleOpen(ok) ==
  /\ pc = "step7"
  /\ IF ok
     THEN /\ zipFile' = [state |-> "partial", rev |-> localRev]
          /\ Note(<<"step7">>)
          /\ Goto("zipping")
     ELSE /\ UNCHANGED zipFile
          /\ Note(<<"step7", "stage_failed">>)
          /\ BundleFailed
  /\ UNCHANGED <<run, versionInfo, localRev, remoteRev, indexFile, menusDir, versionFile>>
  /\ UNCHANGED <<ctlVars, resVars, auxVars>>

\* step 7, second half: the stream finishes and generateBundle resolves
BundleFinish ==
  /\ pc = "zipping"
  /\ zipFile' = [state |-> "complete", rev |-> zipFile.rev]
  /\ Note(<<"bundled">>)
  /\ Goto("step8")
  /\ UNCHANGED <<run, versionInfo, localRev, remoteRev, indexFile, menusDir, versionFile>>
  /\ UNCHANGED <<ctlVars, resVars, auxVars>>

\* (variant) the version stamp is written whether or not bundling succeeded
BundleErrorStamps ==
  /\ pc = "zipping"
  /\ Note(<<"stage_failed", "step8", "stamped">>)
  /\ versionFile' = versionInfo
  /\ Exit("1")
  /\ UNCHANGED <<run, versionInfo, localRev, remoteRev, indexFile, menusDir, zipFile>>
  /\ UNCHANGED <<ctlVars, resVars, auxVars>>

\* step 7, second half: the stream errors, generateBundle rejects and the
\* catch around steps 7-8 exits with 1
BundleError ==
  /\ pc = "zipping"
  /\ Note(<<"stage_failed">>)
  /\ BundleFailed
  /\ UNCHANGED <<run, versionInfo, localRev, remoteRev, indexFile, menusDir, zipFile, versionFile>>
  /\ UNCHANGED <<ctlVars, resVars, auxVars>>

\* step 8: write versionInfo to data.json; buildPipeline returns
VersionStamp ==
  /\ pc = "step8"
  /\ versionFile' = versionInfo
  /\ Note(<<"step8", "stamped">>)
  /\ Exit("0")
  /\ UNCHANGED <<run, versionInfo, localRev, remoteRev, indexFile, menusDir, zipFile>>
  /\ UNCHANGED <<ctlVars, resVars, auxVars>>

\* a new revision is published upstream
RemoteCommit ==
  /\ remoteRev < MaxRev
  /\ remoteRev' = remoteRev + 1
  /\ UNCHANGED <<run, pc, events, versionInfo, exitCode, localRev, indexFile, menusDir,
                 zipFile, versionFile>>
  /\ UNCHANGED <<ctlVars, resVars, auxVars>>

(***************************************************************************)
(* Legacy backfill: scripts/fetch_legacy.js.  Identifiers are numbers; the  *)
(* menus list the leaves 1..MaxLeaves in that order.  The invocations run   *)
(* one after the other; a process can be killed at any point, between the   *)
(* two system calls of a writeFileSync included.                            *)
(***************************************************************************)
MaxLeaves    == 10   \* leaf identifiers in the menus
MaxBackfills == 2    \* invocations of fetch_legacy.js in one behaviour

\* count % 10 === 0
FlushEvery == 10

Leaves == 1..MaxLeaves

RECURSIVE SeqOfRange(_, _)
SeqOfRange(lo, hi) == IF lo > hi THEN <<>> ELSE <<lo>> \o SeqOfRange(lo + 1, hi)

RECURSIVE FilterOut(_, _)
FilterOut(q, S) ==
  IF q = <<>> THEN <<>>
  ELSE IF Head(q) \in S THEN FilterOut(Tail(q), S)
  ELSE <<Head(q)>> \o FilterOut(Tail(q), S)

\* (variant) every leaf of the menus is in the working set
allLeavesUnfiltered(index) == SeqOfRange(1, MaxLeaves)

\* allLeaves.filter((uid) => !suttaIndex[uid])
missingLeaves(index) == FilterOut(SeqOfRange(1, MaxLeaves), index)

NoLegacyFile == [state |-> "absent", uids |-> {}]
NoFetch == [uid |-> 0, run |-> 0, ok |-> FALSE]
NoDocs == [full |-> {}, opened |-> {}]
NoReport == [made |-> FALSE, newly |-> 0, failed |-> 0]

\* fs.writeFileSync, first system call: open with O_TRUNC empties the file
FileOpened == [state |-> "truncated", uids |-> {}]

\* fs.writeFileSync, after the write: the file holds the serialized map
FileWritten(map) == [state |-> "ok", uids |-> map]

\* run() up to the loop: read the index and the legacy map file
StartBackfill ==
  /\ bfPc \in {"idle", "done", "killed", "crashed"}
  /\ bfRun < MaxBackfills
  /\ bfRun' = bfRun + 1
  /\ count' = 0
  /\ IF ~bfIndex.exists
     THEN \* "sutta_index.json not found": return
          /\ bfPc' = "done"
          /\ legacyMap' = {}
          /\ loaded' = {}
          /\ todo' = <<>>
     ELSE IF legacyFile.state = "truncated"
     THEN \* JSON.parse throws, the promise of run() rejects unhandled
          /\ bfPc' = "crashed"
          /\ legacyMap' = {}
          /\ loaded' = {}
          /\ todo' = <<>>
     ELSE /\ bfPc' = "loop"
          /\ legacyMap' = legacyFile.uids
          /\ loaded' = legacyFile.uids
          /\ todo' = missingLeaves(bfIndex.uids)
  /\ fetched' = {}
  /\ legacyDocs' = NoDocs
  /\ report' = NoReport
  /\ UNCHANGED <<bfIndex, legacyFile, lastFetch>>
  /\ UNCHANGED notBf

FetchResults == {"no_plex", "no_english", "no_text", "ok"}

\* (variant) the loop never consults the legacy map
NeverSkip(map, uid) == FALSE

\* if (legacyMap[uid]) continue;
ShouldSkip(map, uid) == uid \in map

\* (variant) a fetch that gives nothing rejects and ends the invocation
FetchFailedAborts ==
  /\ bfPc' = "crashed"
  /\ UNCHANGED <<legacyMap, count, legacyFile>>

\* fetchJson returned null, or the suttaplex has no English translation, or
\* the text is empty: continue with the next identifier
FetchFailed == UNCHANGED <<legacyMap, count, legacyFile, bfPc>>

\* fs.writeFileSync(targetFile, ...), first system call: the document is
\* opened with O_TRUNC
DocumentOpened(docs, uid) ==
  [full |-> docs.full \ {uid}, opened |-> docs.opened \cup {uid}]

\* (variant) the entry is recorded without the document being written
SaveDocumentSkipped(docs, uid) == docs

\* fs.writeFileSync(targetFile, htmlContent, "utf8") has returned
SaveDocument(docs, uid) ==
  [full |-> docs.full \cup {uid}, opened |-> docs.opened \ {uid}]

\* one iteration of the loop over missingLeaves, up to the incremental save
ProcessLeaf(result) ==
  /\ bfPc = "loop"
  /\ todo # <<>>
  /\ LET uid == Head(todo)
     IN  /\ todo' = Tail(todo)
         /\ IF ShouldSkip(legacyMap, uid)
            THEN UNCHANGED <<legacyMap, count, lastFetch, fetched, legacyFile, bfPc,
                             legacyDocs>>
            ELSE /\ lastFetch' = [uid |-> uid, run |-> bfRun, ok |-> result = "ok"]
                 /\ fetched' = fetched \cup {uid}
                 /\ legacyDocs' = IF result = "ok" THEN SaveDocument(legacyDocs, uid)
                                  ELSE legacyDocs
                 /\ IF result = "ok"
                    THEN /\ legacyMap' = legacyMap \cup {uid}
                         /\ count' = count + 1
                         /\ IF (count + 1) % FlushEvery = 0
                            THEN /\ legacyFile' = FileOpened
                                 /\ bfPc' = "flush"
                            ELSE UNCHANGED <<legacyFile, bfPc>>
                    ELSE FetchFailed
  /\ UNCHANGED <<bfRun, bfIndex, loaded, report>>
  /\ UNCHANGED notBf

\* the incremental save completes
FlushWrite ==
  /\ bfPc = "flush"
  /\ legacyFile' = FileWritten(legacyMap)
  /\ bfPc' = "loop"
  /\ UNCHANGED <<bfRun, bfIndex, legacyMap, loaded, todo, count, lastFetch, fetched,
                 legacyDocs, report>>
  /\ UNCHANGED notBf

\* (variant) the final save is skipped when the invocation added nothing
FinalOpenOnlyIfAdded ==
  /\ bfPc = "loop"
  /\ todo = <<>>
  /\ IF count = 0
     THEN /\ bfPc' = "done"
          /\ UNCHANGED legacyFile
     ELSE /\ legacyFile' = FileOpened
          /\ bfPc' = "final"
  /\ UNCHANGED <<bfRun, bfIndex, legacyMap, loaded, todo, count, lastFetch, fetched,
                 legacyDocs, report>>
  /\ UNCHANGED notBf

\* the final save starts
FinalOpen ==
  /\ bfPc = "loop"
  /\ todo = <<>>
  /\ legacyFile' = FileOpened
  /\ bfPc' = "final"
  /\ UNCHANGED <<bfRun, bfIndex, legacyMap, loaded, todo, count, lastFetch, fetched,
                 legacyDocs, report>>
  /\ UNCHANGED notBf

\* missingLeaves.length - count - Object.keys(legacyMap).length
FailedFigure(nMissing, n, map) == nMissing - n - Cardinality(map)

\* the final save completes, the figures are printed and run() returns
FinalWrite ==
  /\ bfPc = "final"
  /\ legacyFile' = FileWritten(legacyMap)
  /\ bfPc' = "done"
  /\ report' = [made |-> TRUE,
                newly |-> count,
                failed |-> FailedFigure(Len(missingLeaves(bfIndex.uids)), count, legacyMap)]
  /\ UNCHANGED <<bfRun, bfIndex, legacyMap, loaded, todo, count, lastFetch, fetched,
                 legacyDocs>>
  /\ UNCHANGED notBf

\* the process is killed; legacyMap, loaded and count keep the values the
\* process had when it died
KillBackfill ==
  /\ bfPc \in {"loop", "flush", "final"}
  /\ bfPc' = "killed"
  /\ UNCHANGED <<bfRun, bfIndex, legacyFile, legacyMap, loaded, todo, count, lastFetch,
                 fetched, legacyDocs, report>>
  /\ UNCHANGED notBf

\* the process is killed inside the writeFileSync of a legacy document: the
\* fetch gave a text, the document is opened, nothing of it is recorded
KillDuringSave ==
  /\ bfPc = "loop"
  /\ todo # <<>>
  /\ ~ShouldSkip(legacyMap, Head(todo))
  /\ lastFetch' = [uid |-> Head(todo), run |-> bfRun, ok |-> TRUE]
  /\ fetched' = fetched \cup {Head(todo)}
  /\ legacyDocs' = DocumentOpened(legacyDocs, Head(todo))
  /\ todo' = Tail(todo)
  /\ bfPc' = "killed"
  /\ UNCHANGED <<bfRun, bfIndex, legacyFile, legacyMap, loaded, count, report>>
  /\ UNCHANGED notBf

(***************************************************************************)
(* Index builder: scripts/build_index.js.  A path is the sequence of its   *)
(* pieces: directory names, then the pieces of the file name (identifier,  *)
(* convention suffix).  A file of a tree is [dir, name]: it sits in the     *)
(* directory dir under the base of the walk.                                *)
(***************************************************************************)
MaxFiles  == 2   \* files one walk lists
MaxBuilds == 3   \* runs of build_index.js in one behaviour
MaxEdits  == 2   \* changes to the corpus in one behaviour

BASE_DIR        == <<"data", "bilara-data-published">>
ROOT_DIR        == BASE_DIR \o <<"root", "pli", "ms">>
TRANSLATION_DIR == BASE_DIR \o <<"translation", "en">>

RootSuffix == "_root-pli-ms.json"
TransInfix == "_translation-en-"

BuilderAuthors == {"sujato", "brahmali"}

RootName(uid)     == <<uid, RootSuffix>>
TransName(uid, a) == <<uid, TransInfix, a, ".json">>

\* files a checkout can hold under root/pli/ms: dn1 in two places, dn2, and a
\* file outside the naming convention
RootCandidates ==
  {[dir |-> "sutta", name |-> RootName("dn1")],
   [dir |-> "vinaya", name |-> RootName("dn1")],
   [dir |-> "sutta", name |-> <<"notes", ".txt">>]}

\* files a checkout can hold under translation/en/<author>: dn1 by both
\* authors, mn1 (which has no root file) by sujato only
TransCandidates(a) ==
  IF a = "sujato"
  THEN {[dir |-> "sutta", name |-> TransName("dn1", a)],
        [dir |-> "sutta", name |-> TransName("mn1", a)]}
  ELSE {[dir |-> "sutta", name |-> TransName("dn1", a)]}

AllTransFiles == UNION {TransCandidates(a) : a \in BuilderAuthors}

\* what walkSync pushes for a file: path.join(dir, file)
FullPath(base, f) == base \o <<f.dir>> \o f.name

walkSync(base, files) == [i \in 1..Len(files) |-> FullPath(base, files[i])]

\* path.basename: the pieces after the directory names
basename(base, full) == SubSeq(full, Len(base) + 2, Len(full))

\* path.relative(from, to) for a path under from
relative(from, to) == SubSeq(to, Len(from) + 1, Len(to))

endsWith(name, piece) == Len(name) > 0 /\ name[Len(name)] = piece
includes(name, piece) == \E i \in 1..Len(name) : name[i] = piece

\* filename.replace(suffix, "") and filename.split(infix)[0]: the identifier
UidOf(name) == name[1]

\* obj[k] = v
JsPut(obj, k, v) ==
  LET ks == IF JsHasOwn(obj, k) THEN obj.keys ELSE Append(obj.keys, k)
  IN  [keys |-> ks,
       val  |-> [x \in {ks[i] : i \in 1..Len(ks)} |-> IF x = k THEN v ELSE obj.val[x]]]

\* (variant) a root file overwrites the entry an earlier root file made
IndexRootLastWins(index, fullPath) ==
  IF endsWith(fullPath, RootSuffix)
  THEN LET uid == UidOf(basename(ROOT_DIR, fullPath))
       IN  JsPut(index, uid, [root |-> relative(ROOT_DIR, fullPath),
                              translations |-> EmptyObj])
  ELSE index

\* the body of rootFiles.forEach
IndexRoot(index, fullPath) ==
  IF endsWith(fullPath, RootSuffix)
  THEN LET uid == UidOf(basename(ROOT_DIR, fullPath))
       IN  IF ~Truthy(JsGet(index, uid))
           THEN JsPut(index, uid, [root |-> relative(ROOT_DIR, fullPath),
                                   translations |-> EmptyObj])
           ELSE index
  ELSE index

RECURSIVE IndexRoots(_, _)
IndexRoots(index, paths) ==
  IF paths = <<>> THEN index
  ELSE IndexRoots(IndexRoot(index, Head(paths)), Tail(paths))

\* (variant) the translation path is recorded relative to translation/en
TransRelativeToLangDir(author, fullPath) == relative(TRANSLATION_DIR, fullPath)

\* const relativePath = path.relative(authorDir, fullPath)
TransRelative(author, fullPath) == relative(TRANSLATION_DIR \o <<author>>, fullPath)

\* (variant) a translation without an indexed root is dropped
IndexTranslationDropsOrphans(index, author, fullPath) ==
  LET authorDir == TRANSLATION_DIR \o <<author>>
      filename  == basename(authorDir, fullPath)
      uid       == UidOf(filename)
  IN  IF includes(filename, TransInfix) /\ Truthy(JsGet(index, uid))
      THEN LET e == EntryOf(JsGet(index, uid))
           IN  JsPut(index, uid,
                     [e EXCEPT !.translations =
                        JsPut(@, author, TransRelative(author, fullPath))])
      ELSE index

\* the body of transFiles.forEach
IndexTranslation(index, author, fullPath) ==
  LET authorDir == TRANSLATION_DIR \o <<author>>
      filename  == basename(authorDir, fullPath)
  IN  IF includes(filename, TransInfix)
      THEN LET uid  == UidOf(filename)
               with == IF ~Truthy(JsGet(index, uid))
                       THEN JsPut(index, uid, [root |-> <<"null">>, translations |-> EmptyObj])
                       ELSE index
               e    == EntryOf(JsGet(with, uid))
           IN  JsPut(with, uid,
                     [e EXCEPT !.translations =
                        JsPut(@, author, TransRelative(author, fullPath))])
      ELSE index

RECURSIVE IndexAuthorFiles(_, _, _)
IndexAuthorFiles(index, author, paths) ==
  IF paths = <<>> THEN index
  ELSE IndexAuthorFiles(IndexTranslation(index, author, Head(paths)), author, Tail(paths))

RECURSIVE IndexAuthors(_, _, _)
IndexAuthors(index, authors, trans) ==
  IF authors = <<>> THEN index
  ELSE LET a == Head(authors)
       IN  IndexAuthors(IndexAuthorFiles(index, a, walkSync(TRANSLATION_DIR \o <<a>>, trans[a])),
                        Tail(authors), trans)

\* (variant) the build starts from the index file already on disk
StartFromPrior(prior) == prior

\* const index = {}
StartIndex(prior) == EmptyObj

\* buildIndex: the object it serializes
buildIndex(c, prior) ==
  IndexAuthors(IndexRoots(StartIndex(prior), walkSync(ROOT_DIR, c.root)), c.authors, c.trans)

NoCorpus == [root |-> <<>>, authors |-> <<>>, trans |-> [a \in BuilderAuthors |-> <<>>]]
NoIndexFile == [exists |-> FALSE, index |-> EmptyObj]
NoBuild == [done |-> FALSE, corpus |-> NoCorpus, index |-> EmptyObj]

\* node scripts/build_index.js
Build ==
  /\ builds < MaxBuilds
  /\ builds' = builds + 1
  /\ indexOut' = [exists |-> TRUE, index |-> buildIndex(corpus, indexOut.index)]
  /\ builtFrom' = corpus
  /\ firstBuild' = IF firstBuild.done THEN firstBuild
                   ELSE [done |-> TRUE, corpus |-> corpus, index |-> indexOut'.index]
  /\ UNCHANGED <<corpus, edits>>
  /\ UNCHANGED notIx

RemoveAt(q, i) == SubSeq(q, 1, i - 1) \o SubSeq(q, i + 1, Len(q))

InSeq(q, x) == \E i \in 1..Len(q) : q[i] = x

\* the corpus sync brings a new root file
AddRootFile(f) ==
  /\ edits < MaxEdits
  /\ ~InSeq(corpus.root, f)
  /\ Len(corpus.root) < MaxFiles
  /\ corpus' = [corpus EXCEPT !.root = Append(@, f)]
  /\ edits' = edits + 1
  /\ UNCHANGED <<indexOut, builtFrom, firstBuild, builds>>
  /\ UNCHANGED notIx

\* the corpus sync or the pruning removes a root file
RemoveRootFile(i) ==
  /\ edits < MaxEdits
  /\ i \in 1..Len(corpus.root)
  /\ corpus' = [corpus EXCEPT !.root = RemoveAt(@, i)]
  /\ edits' = edits + 1
  /\ UNCHANGED <<indexOut, builtFrom, firstBuild, builds>>
  /\ UNCHANGED notIx

\* the corpus sync brings a new translation file of a listed author
AddTransFile(a, f) ==
  /\ edits < MaxEdits
  /\ InSeq(corpus.authors, a)
  /\ f \in TransCandidates(a)
  /\ ~InSeq(corpus.trans[a], f)
  /\ Len(corpus.trans[a]) < MaxFiles
  /\ corpus' = [corpus EXCEPT !.trans[a] = Append(@, f)]
  /\ edits' = edits + 1
  /\ UNCHANGED <<indexOut, builtFrom, firstBuild, builds>>
  /\ UNCHANGED notIx

\* the corpus sync or the pruning removes a translation file
RemoveTransFile(a, i) ==
  /\ edits < MaxEdits
  /\ i \in 1..Len(corpus.trans[a])
  /\ corpus' = [corpus EXCEPT !.trans[a] = RemoveAt(@, i)]
  /\ edits' = edits + 1
  /\ UNCHANGED <<indexOut, builtFrom, firstBuild, builds>>
  /\ UNCHANGED notIx

\* the checkouts build_index.js can find: the walks list the files in the
\* order of the directory listing, each file once
Corpora ==
  {c \in [root    : NoDupSeqs(RootCandidates, MaxFiles),
          authors : NoDupSeqs(BuilderAuthors, MaxAuthors),
          trans   : [BuilderAuthors -> NoDupSeqs(AllTransFiles, MaxFiles)]] :
     \A a \in BuilderAuthors :
       /\ \A i \in 1..Len(c.trans[a]) : c.trans[a][i] \in TransCandidates(a)
       /\ ~InSeq(c.authors, a) => c.trans[a] = <<>>}

\* an index file left by an earlier build of another corpus
StaleIndex ==
  JsObj(<<"zz9">>, [u \in {"zz9"} |-> [root |-> RootPath("zz9"), translations |-> EmptyObj]])

\* app.js: const BILARA_BASE = path.join(__dirname, "data/bilara-data-published")
BILARA_BASE == <<"data", "bilara-data-published">>

\* the root file the route reads: path.join(BILARA_BASE, "root/pli/ms", entry.root)
ResolverRootPath(entry) == BILARA_BASE \o <<"root", "pli", "ms">> \o entry.root

\* the translation file the route reads for a request naming the author:
\* path.join(BILARA_BASE, "translation/en", selectedAuthor, translationRelativePath)
ResolverTransPath(entry, requestedAuthor) ==
  LET sel == SelectTranslation(entry, requestedAuthor)
  IN  BILARA_BASE \o <<"translation", "en">> \o <<sel.author>>
        \o (IF IsString(sel.path) THEN sel.path.v ELSE <<>>)

\* values of the variables a specification does not move
ResIdle ==
  /\ suttaIndex = EmptyObj
  /\ req = NoReq
  /\ resp = NoResp

PipeIdle ==
  /\ run = 0
  /\ pc = "idle"
  /\ events = <<>>
  /\ versionInfo = NoVersion
  /\ exitCode = "null"
  /\ localRev = 0
  /\ remoteRev = 1
  /\ indexFile = FALSE
  /\ menusDir = FALSE
  /\ zipFile = NoZip
  /\ versionFile = NoVersion

BfIdle ==
  /\ bfRun = 0
  /\ bfPc = "idle"
  /\ bfIndex = [exists |-> FALSE, uids |-> {}]
  /\ legacyFile = NoLegacyFile
  /\ legacyMap = {}
  /\ loaded = {}
  /\ todo = <<>>
  /\ count = 0
  /\ lastFetch = NoFetch
  /\ fetched = {}
  /\ legacyDocs = NoDocs
  /\ report = NoReport

IxIdle ==
  /\ corpus = NoCorpus
  /\ indexOut = NoIndexFile
  /\ builtFrom = NoCorpus
  /\ firstBuild = NoBuild
  /\ builds = 0
  /\ edits = 0

NoDownload == [status |-> 0, zip |-> NoZip, run |-> 0]
NoDataVersion == [status |-> 0, version |-> NoVersion, run |-> 0]

SrvIdle ==
  /\ wrote = {}
  /\ publicZip = NoZip
  /\ publicVersion = NoVersion
  /\ download = NoDownload
  /\ dataVersion = NoDataVersion
  /\ appended = <<>>

\* nothing on the disk, no request
NoTree      == [dirs |-> {}, files |-> {}]
NoPathReq   == [dir |-> <<>>, id |-> "", author |-> "", root |-> <<>>, translation |-> <<>>]
NoInferred  == [done |-> FALSE, html |-> <<>>, comment |-> <<>>, variant |-> <<>>,
                reference |-> <<>>]

FsIdle ==
  /\ disk = {}
  /\ diskBefore = {}
  /\ pruned = FALSE
  /\ menus = NoTree
  /\ menusBefore = NoTree
  /\ flattened = FALSE
  /\ pathReq = NoPathReq
  /\ inferred = NoInferred

AuxIdle == BfIdle /\ IxIdle /\ SrvIdle /\ FsIdle

CtlIdle ==
  /\ buildProcess = NullProc
  /\ procs = [p \in Pids |-> "unborn"]
  /\ procExit = [p \in Pids |-> "null"]
  /\ buildLogs = <<>>
  /\ pipe = [p \in Pids |-> <<>>]
  /\ written = 0
  /\ bootTimer = "none"
  /\ scriptExists = TRUE
  /\ trig = NoTrig

\* the server after startup: the timer is armed iff the index file is absent
InitCtl ==
  /\ buildProcess = NullProc
  /\ procs = [p \in Pids |-> "unborn"]
  /\ procExit = [p \in Pids |-> "null"]
  /\ buildLogs = <<>>
  /\ pipe = [p \in Pids |-> <<>>]
  /\ written = 0
  /\ bootTimer \in {"none", "armed"}
  /\ scriptExists \in BOOLEAN
  /\ trig = NoTrig
  /\ ResIdle
  /\ PipeIdle
  /\ AuxIdle

NextCtl ==
  \/ PostBuild
  \/ BootTimerFire
  \/ \E p \in Pids, s \in {"stdout", "stderr"} : WorkerWrite(p, s)
  \/ \E p \in Pids, k \in 1..MaxLines : PipeData(p, k)
  \/ \E p \in Pids, c \in {"0", "1"} : WorkerExit(p, c)

SpecCtl == InitCtl /\ [][NextCtl]_vars

InitResolve ==
  /\ suttaIndex \in Indexes
  /\ req \in [uid : Uids, author : ReqAuthors, fs : [Facets -> FileStates]]
  /\ resp = NoResp
  /\ CtlIdle
  /\ PipeIdle
  /\ AuxIdle

NextResolve == GetSutta

SpecResolve == InitResolve /\ [][NextResolve]_vars

InitPipe ==
  /\ PipeIdle
  /\ CtlIdle
  /\ ResIdle
  /\ AuxIdle

NextPipe ==
  \/ StartRun
  \/ \E ok \in BOOLEAN : SyncClone(ok)
  \/ \E ok \in BOOLEAN : SyncPull(ok)
  \/ \E h \in BOOLEAN, d \in BOOLEAN : CommitInfo(h, d)
  \/ \E n \in BOOLEAN, f \in BOOLEAN : MenuFetch(n, f)
  \/ \E ok \in BOOLEAN : Prune(ok)
  \/ \E ok \in BOOLEAN : BuildIndex(ok)
  \/ \E ok \in BOOLEAN : Backfill(ok)
  \/ \E ok \in BOOLEAN : BundleOpen(ok)
  \/ BundleFinish
  \/ BundleError
  \/ VersionStamp
  \/ RemoteCommit

SpecPipe == InitPipe /\ [][NextPipe]_vars

\* the index and the legacy map file fetch_legacy.js can find on disk
InitBackfill ==
  /\ bfRun = 0
  /\ bfPc = "idle"
  /\ bfIndex \in {[exists |-> FALSE, uids |-> {}],
                  [exists |-> TRUE, uids |-> {}],
                  [exists |-> TRUE, uids |-> {1}]}
  /\ legacyFile \in {NoLegacyFile, FileWritten({}), FileWritten({2})}
  /\ legacyMap = {}
  /\ loaded = {}
  /\ todo = <<>>
  /\ count = 0
  /\ lastFetch = NoFetch
  /\ fetched = {}
  /\ legacyDocs = NoDocs
  /\ report = NoReport
  /\ CtlIdle
  /\ ResIdle
  /\ PipeIdle
  /\ IxIdle
  /\ SrvIdle
  /\ FsIdle

NextBackfill ==
  \/ StartBackfill
  \/ \E r \in FetchResults : ProcessLeaf(r)
  \/ FlushWrite
  \/ FinalOpen
  \/ FinalWrite
  \/ KillBackfill
  \/ KillDuringSave

SpecBackfill == InitBackfill /\ [][NextBackfill]_vars

InitIndex ==
  /\ corpus \in Corpora
  /\ indexOut \in {NoIndexFile, [exists |-> TRUE, index |-> StaleIndex]}
  /\ builtFrom = NoCorpus
  /\ firstBuild = NoBuild
  /\ builds = 0
  /\ edits = 0
  /\ CtlIdle
  /\ ResIdle
  /\ PipeIdle
  /\ BfIdle
  /\ SrvIdle
  /\ FsIdle

NextIndex ==
  \/ Build
  \/ \E f \in RootCandidates : AddRootFile(f)
  \/ \E i \in 1..MaxFiles : RemoveRootFile(i)
  \/ \E a \in BuilderAuthors, f \in AllTransFiles : AddTransFile(a, f)
  \/ \E a \in BuilderAuthors, i \in 1..MaxFiles : RemoveTransFile(a, i)

SpecIndex == InitIndex /\ [][NextIndex]_vars

(***************************************************************************)
(* The server with its worker: app.js loads the index once, when the       *)
(* module is loaded; the worker forked by a trigger rebuilds the index     *)
(* file (step 5 of the pipeline) and exits.                                *)
(***************************************************************************)

\* the checkout the worker indexes
ServedCorpus ==
  [root    |-> <<[dir |-> "sutta", name |-> RootName("dn1")]>>,
   authors |-> <<"sujato">>,
   trans   |-> [a \in BuilderAuthors |->
                  IF a = "sujato"
                  THEN <<[dir |-> "sutta", name |-> TransName("dn1", a)]>>
                  ELSE <<>>]]

\* the index the route consults: the object assigned when app.js was loaded
IndexConsulted(loadedAtStartup, file) == loadedAtStartup

\* step 5 in worker p: node scripts/build_index.js writes the index file
WorkerBuildIndex(p) ==
  /\ procs[p] = "alive"
  /\ p \notin wrote
  /\ indexOut' = [exists |-> TRUE, index |-> buildIndex(corpus, indexOut.index)]
  /\ builtFrom' = corpus
  /\ wrote' = wrote \cup {p}
  /\ UNCHANGED <<corpus, firstBuild, builds, edits>>
  /\ UNCHANGED <<publicZip, publicVersion, download, dataVersion, appended>>
  /\ UNCHANGED <<ctlVars, resVars, pipeVars, bfVars, fsVars>>

\* GET /api/suttas/:uid, received after a worker that rebuilt the index
\* exited with code 0
GetSuttaAfterBuild ==
  /\ \E p \in wrote : procExit[p] = "0"
  /\ resp.status = 0
  /\ resp' = Resolve(IndexConsulted(suttaIndex, indexOut), req.uid, req.author, req.fs)
  /\ UNCHANGED <<suttaIndex, req>>
  /\ UNCHANGED <<ctlVars, pipeVars, auxVars>>

\* app.js after it was loaded: the index is read if the file exists, else
\* the bootstrap timer is armed
InitServe ==
  /\ corpus = ServedCorpus
  /\ indexOut \in {NoIndexFile, [exists |-> TRUE, index |-> StaleIndex]}
  /\ suttaIndex = IF indexOut.exists THEN indexOut.index ELSE EmptyObj
  /\ bootTimer = IF indexOut.exists THEN "none" ELSE "armed"
  /\ req \in [uid : {"dn1", "zz9"}, author : {"", "sujato"}, fs : {[f \in Facets |-> "ok"]}]
  /\ resp = NoResp
  /\ buildProcess = NullProc
  /\ procs = [p \in Pids |-> "unborn"]
  /\ procExit = [p \in Pids |-> "null"]
  /\ buildLogs = <<>>
  /\ pipe = [p \in Pids |-> <<>>]
  /\ written = 0
  /\ scriptExists = TRUE
  /\ trig = NoTrig
  /\ builtFrom = NoCorpus
  /\ firstBuild = NoBuild
  /\ builds = 0
  /\ edits = 0
  /\ PipeIdle
  /\ BfIdle
  /\ SrvIdle
  /\ FsIdle

NextServe ==
  \/ PostBuild
  \/ BootTimerFire
  \/ \E p \in Pids : WorkerBuildIndex(p)
  \/ \E p \in Pids, c \in {"0", "1"} : WorkerExit(p, c)
  \/ GetSuttaAfterBuild

SpecServe == InitServe /\ [][NextServe]_vars

(***************************************************************************)
(* The public endpoints of app.js beside the pipeline.  The pipeline       *)
(* writes data.zip and data.json under ../pwa/public (zipFile,             *)
(* versionFile); the endpoints read public/ beside app.js (publicZip,      *)
(* publicVersion), which nothing in the repository writes.                 *)
(***************************************************************************)

\* an archive and a stamp put under public/ when the server was deployed
DeployedZip     == [state |-> "complete", rev |-> 0]
DeployedVersion == [exists |-> TRUE, commit |-> 0, date |-> "now", run |-> 0]

\* the latest run went through all its stages and ended with code 0
RunSucceeded == pc = "exited" /\ exitCode = "0" /\ \E i \in 1..Len(events) : events[i] = "stamped"

\* GET /api/public/download-data, received after a successful run
GetDownloadData ==
  /\ RunSucceeded
  /\ download' = IF publicZip.state # "absent"
                 THEN [status |-> 200, zip |-> publicZip, run |-> run]
                 ELSE [status |-> 404, zip |-> NoZip, run |-> run]
  /\ UNCHANGED <<wrote, publicZip, publicVersion, dataVersion, appended>>
  /\ UNCHANGED <<ctlVars, resVars, pipeVars, bfVars, ixVars, fsVars>>

\* GET /api/public/data-version, received after a successful run
GetDataVersion ==
  /\ RunSucceeded
  /\ dataVersion' = IF publicVersion.exists
                    THEN [status |-> 200, version |-> publicVersion, run |-> run]
                    ELSE [status |-> 404, version |-> NoVersion, run |-> run]
  /\ UNCHANGED <<wrote, publicZip, publicVersion, download, appended>>
  /\ UNCHANGED <<ctlVars, resVars, pipeVars, bfVars, ixVars, fsVars>>

InitPublish ==
  /\ PipeIdle
  /\ CtlIdle
  /\ ResIdle
  /\ BfIdle
  /\ IxIdle
  /\ FsIdle
  /\ wrote = {}
  /\ publicZip \in {NoZip, DeployedZip}
  /\ publicVersion \in {NoVersion, DeployedVersion}
  /\ download = NoDownload
  /\ dataVersion = NoDataVersion
  /\ appended = <<>>

NextPublish ==
  \/ NextPipe
  \/ GetDownloadData
  \/ GetDataVersion

SpecPublish == InitPublish /\ [][NextPublish]_vars

(***************************************************************************)
(* The log ring alone: every line is passed to appendLog with the time of  *)
(* the call in front; the time is the number of the call since the reset.  *)
(***************************************************************************)
MaxAppends == 1002   \* calls of appendLog between two resets

LineAt(n) == [run |-> 1, text |-> "out", at |-> n]

\* buildLogs = []; appendLog("Starting new build process...")
RingReset ==
  /\ buildLogs' = appendLog(<<>>, LineAt(1))
  /\ appended' = <<LineAt(1)>>
  /\ UNCHANGED <<buildProcess, procs, procExit, pipe, written, bootTimer, scriptExists, trig>>
  /\ UNCHANGED <<wrote, publicZip, publicVersion, download, dataVersion>>
  /\ UNCHANGED <<resVars, pipeVars, bfVars, ixVars, fsVars>>

\* a line of a "data" event or of the exit handler: appendLog(line)
RingAppend ==
  /\ Len(appended) < MaxAppends
  /\ LET line == LineAt(Len(appended) + 1)
     IN  /\ buildLogs' = appendLog(buildLogs, line)
         /\ appended' = Append(appended, line)
  /\ UNCHANGED <<buildProcess, procs, procExit, pipe, written, bootTimer, scriptExists, trig>>
  /\ UNCHANGED <<wrote, publicZip, publicVersion, download, dataVersion>>
  /\ UNCHANGED <<resVars, pipeVars, bfVars, ixVars, fsVars>>

InitRing ==
  /\ CtlIdle
  /\ ResIdle
  /\ PipeIdle
  /\ AuxIdle

NextRing ==
  \/ RingReset
  \/ RingAppend

SpecRing == InitRing /\ [][NextRing]_vars

(***************************************************************************)
(* Corpus pruning: scripts/cleanup_bilara.js.  The disk is the set of its   *)
(* files, each the sequence of the names on its path from the server        *)
(* directory; a directory exists when a file lies under it.                 *)
(***************************************************************************)

\* cleanup_bilara.js: const BILARA_BASE = path.join(__dirname, "../bilara-data-published")
CLEANUP_BILARA_BASE == <<"bilara-data-published">>

DIRS_TO_PROCESS ==
  <<[name |-> "root", keep |-> {"pli"}],
    [name |-> "translation", keep |-> {"en"}],
    [name |-> "html", keep |-> {"pli"}],
    [name |-> "comment", keep |-> {"en"}],
    [name |-> "variant", keep |-> {"pli"}],
    [name |-> "reference", keep |-> {"pli"}]>>

FILES_TO_DELETE ==
  {"_category.json", "_edition.json", "_language.json", "_project.json",
   "_project-v2.json", "_publication-v2.json"}

DIRS_TO_DELETE == {"_publication"}

\* the path p lies under the directory dir
Under(dir, p) == Len(p) > Len(dir) /\ SubSeq(p, 1, Len(dir)) = dir

\* the files left once directoryPath and everything under it are removed
deleteFolderRecursive(files, directoryPath) == {p \in files : ~Under(directoryPath, p)}

\* the directories among the entries of dirPath
SubdirsOf(files, dirPath) ==
  {p[Len(dirPath) + 1] : p \in {q \in files : Under(dirPath, q) /\ Len(q) > Len(dirPath) + 1}}

RECURSIVE deleteFolders(_, _, _)
deleteFolders(files, dirPath, names) ==
  IF names = {} THEN files
  ELSE LET n == CHOOSE n \in names : TRUE
       IN  deleteFolders(deleteFolderRecursive(files, dirPath \o <<n>>), dirPath, names \ {n})

\* processDirectory: under BILARA_BASE/<name>, delete every subdirectory that
\* is not in keep; nothing happens when the directory does not exist
processDirectory(files, dirConfig) ==
  LET dirPath == CLEANUP_BILARA_BASE \o <<dirConfig.name>>
  IN  deleteFolders(files, dirPath,
                    {sd \in SubdirsOf(files, dirPath) : sd \notin dirConfig.keep})

RECURSIVE processDirectories(_, _)
processDirectories(files, configs) ==
  IF configs = <<>> THEN files
  ELSE processDirectories(processDirectory(files, Head(configs)), Tail(configs))

\* cleanup(): the files left on the disk
cleanup(files) ==
  LET kept     == processDirectories(files, DIRS_TO_PROCESS)
      lessDirs == deleteFolders(kept, CLEANUP_BILARA_BASE, DIRS_TO_DELETE)
  IN  {p \in lessDirs : \A f \in FILES_TO_DELETE : p # CLEANUP_BILARA_BASE \o <<f>>}

\* step 4 of the pipeline: node scripts/cleanup_bilara.js
RunCleanup ==
  /\ ~pruned
  /\ diskBefore' = disk
  /\ disk' = cleanup(disk)
  /\ pruned' = TRUE
  /\ UNCHANGED <<menus, menusBefore, flattened, pathReq, inferred>>
  /\ UNCHANGED notFs

\* files of a checkout of the published corpus, with the legacy directory and
\* the legacy map the backfill adds to it
CheckoutFiles ==
  {<<"root", "pli", "dn1.json">>,
   <<"root", "lzh", "t1.json">>,
   <<"translation", "en", "dn1.json">>,
   <<"translation", "de", "dn1.json">>,
   <<"comment", "de", "dn1.json">>,
   <<"_publication", "en.json">>,
   <<"_category.json">>,
   <<"legacy", "dn1.html">>,
   <<"legacy_sutta_map.json">>}

At(base, rels) == {base \o rel : rel \in rels}

\* the corpus the pipeline cloned under data/, and possibly a checkout left
\* beside it in the server directory
InitPrune ==
  /\ disk \in {At(BASE_DIR, served) \cup At(CLEANUP_BILARA_BASE, beside) :
                 served \in SUBSET CheckoutFiles, beside \in {{}, CheckoutFiles}}
  /\ diskBefore = {}
  /\ pruned = FALSE
  /\ menus = NoTree
  /\ menusBefore = NoTree
  /\ flattened = FALSE
  /\ pathReq = NoPathReq
  /\ inferred = NoInferred
  /\ CtlIdle
  /\ ResIdle
  /\ PipeIdle
  /\ BfIdle
  /\ IxIdle
  /\ SrvIdle

NextPrune == RunCleanup

SpecPrune == InitPrune /\ [][NextPrune]_vars

(***************************************************************************)
(* Menu flattening: scripts/flatten_menus.js.  A directory is the sequence  *)
(* of the names on its path; a file is [dir, name, doc]: the directory it   *)
(* is in, the pieces of its name and the document it holds (named by the    *)
(* directory the document was first stored in).                             *)
(***************************************************************************)
MENUS_DIR == <<"data", "menus">>

MenuFile(dir, name) == [dir |-> dir, name |-> name, doc |-> dir]

\* what the menus directory can hold before the step: menu documents at
\* three depths, two of them under the same name, and a file that is no
\* menu document
MenuCandidates ==
  {MenuFile(MENUS_DIR, <<"dn", ".json">>),
   MenuFile(MENUS_DIR \o <<"sutta">>, <<"dn", ".json">>),
   MenuFile(MENUS_DIR \o <<"sutta">>, <<"notes", ".txt">>),
   MenuFile(MENUS_DIR \o <<"sutta", "long">>, <<"dn", ".json">>),
   MenuFile(MENUS_DIR \o <<"sutta", "long">>, <<"mn", ".json">>),
   MenuFile(MENUS_DIR \o <<"vinaya">>, <<"bu", ".json">>)}

\* directories that may exist without a file in them
EmptyDirCandidates == {MENUS_DIR \o <<"abhidhamma">>, MENUS_DIR \o <<"abhidhamma", "ds">>}

\* dir and the directories above it, up to MENUS_DIR
Ancestors(dir) == {SubSeq(dir, 1, n) : n \in Len(MENUS_DIR)..Len(dir)}

TreeOf(files, extra) ==
  [dirs  |-> UNION {Ancestors(f.dir) : f \in files} \cup UNION {Ancestors(d) : d \in extra}
               \cup {MENUS_DIR},
   files |-> files]

\* (variant) walk does not go below the subdirectories of MENUS_DIR
filesToMoveOneLevel(tree) ==
  {f \in tree.files : endsWith(f.name, ".json") /\ Len(f.dir) = Len(MENUS_DIR) + 1}

\* walk(MENUS_DIR), as a set: the files named *.json that are not directly in
\* MENUS_DIR
filesToMove(tree) == {f \in tree.files : endsWith(f.name, ".json") /\ f.dir # MENUS_DIR}

\* the orders in which the directory listings can make walk return them
WalkOrders(S) == {q \in NoDupSeqs(S, Cardinality(S)) : Len(q) = Cardinality(S)}

\* fs.renameSync(file, path.join(destDir, basename)): a file already at the
\* destination is replaced
renameSync(files, f, destDir) ==
  {g \in files : g # f /\ ~(g.dir = destDir /\ g.name = f.name)}
    \cup {[f EXCEPT !.dir = destDir]}

\* filesToMove.forEach
RECURSIVE moveFiles(_, _)
moveFiles(files, order) ==
  IF order = <<>> THEN files
  ELSE moveFiles(renameSync(files, Head(order), MENUS_DIR), Tail(order))

\* the directories directly in dir
Children(dirs, dir) == {d \in dirs : Len(d) = Len(dir) + 1 /\ SubSeq(d, 1, Len(dir)) = dir}

\* removeEmptyDirs(dir): the directories left; the subdirectories first, then
\* dir itself if nothing is left in it and it is not MENUS_DIR
RECURSIVE removeEmptyDirs(_, _, _)
removeEmptyDirs(dirs, files, dir) ==
  LET kids      == Children(dirs, dir)
      afterKids == {d \in dirs : \A k \in kids : d \in removeEmptyDirs(dirs, files, k)}
      isEmpty   == Children(afterKids, dir) = {} /\ ~\E f \in files : f.dir = dir
  IN  IF isEmpty /\ dir # MENUS_DIR THEN afterKids \ {dir} ELSE afterKids

\* node scripts/flatten_menus.js, run by master_fetch.js
FlattenMenus(order) ==
  /\ ~flattened
  /\ order \in WalkOrders(filesToMove(menus))
  /\ LET moved == moveFiles(menus.files, order)
     IN  menus' = [dirs |-> removeEmptyDirs(menus.dirs, moved, MENUS_DIR), files |-> moved]
  /\ menusBefore' = menus
  /\ flattened' = TRUE
  /\ UNCHANGED <<disk, diskBefore, pruned, pathReq, inferred>>
  /\ UNCHANGED notFs

InitFlatten ==
  /\ menus \in {TreeOf(files, extra) :
                  files \in SUBSET MenuCandidates, extra \in SUBSET EmptyDirCandidates}
  /\ menusBefore = NoTree
  /\ flattened = FALSE
  /\ disk = {}
  /\ diskBefore = {}
  /\ pruned = FALSE
  /\ pathReq = NoPathReq
  /\ inferred = NoInferred
  /\ CtlIdle
  /\ ResIdle
  /\ PipeIdle
  /\ BfIdle
  /\ IxIdle
  /\ SrvIdle

NextFlatten == \E order \in WalkOrders(filesToMove(menus)) : FlattenMenus(order)

SpecFlatten == InitFlatten /\ [][NextFlatten]_vars

(***************************************************************************)
(* Facet path inference in GET /api/suttas/:uid.  A path string is the      *)
(* sequence of its pieces: names, "/" between them, and within a file name  *)
(* the identifier and the pieces of the convention ("_", "root-", ...).     *)
(***************************************************************************)
Sep == "/"

\* the path string of a sequence of names
RECURSIVE Slashed(_)
Slashed(names) ==
  IF names = <<>> THEN <<>>
  ELSE IF Len(names) = 1 THEN names
  ELSE <<Head(names), Sep>> \o Slashed(Tail(names))

\* position of the last "/" of p, 0 without one
LastSep(p) ==
  LET at == {i \in 1..Len(p) : p[i] = Sep}
  IN  IF at = {} THEN 0 ELSE CHOOSE i \in at : \A j \in at : j <= i

\* path.basename(p)
pathBasename(p) == SubSeq(p, LastSep(p) + 1, Len(p))

\* path.dirname(p): "." for a path without a directory
pathDirname(p) == IF LastSep(p) = 0 THEN <<".">> ELSE SubSeq(p, 1, LastSep(p) - 1)

\* path.join(...parts): the parts with "/" between them, "." segments dropped
RECURSIVE pathJoin(_)
pathJoin(parts) ==
  IF parts = <<>> THEN <<>>
  ELSE LET h    == Head(parts)
           rest == pathJoin(Tail(parts))
       IN  IF h = <<".">> \/ h = <<>> THEN rest
           ELSE IF rest = <<>> THEN h
           ELSE h \o <<Sep>> \o rest

Occurs(s, pat, i) == i + Len(pat) - 1 <= Len(s) /\ SubSeq(s, i, i + Len(pat) - 1) = pat

\* s.replace(pat, rep) with a string pattern: the first occurrence only
replace(s, pat, rep) ==
  LET at == {i \in 1..Len(s) : Occurs(s, pat, i)}
  IN  IF at = {} THEN s
      ELSE LET i == CHOOSE i \in at : \A j \in at : i <= j
           IN  SubSeq(s, 1, i - 1) \o rep \o SubSeq(s, i + Len(pat), Len(s))

\* "_root-pli-ms.json"
RootSuffixPieces == <<"_", "root-", "pli-ms", ".json">>

\* the paths build_index.js records for identifier id found in directory d
RootRel(d, id) == pathJoin(<<Slashed(d), <<id>> \o RootSuffixPieces>>)
TransRel(d, id, a) == pathJoin(<<Slashed(d), <<id, "_", "translation-", "en-", a, ".json">>>>)

\* 4. HTML
htmlPath(root) ==
  pathJoin(<<Slashed(BILARA_BASE), Slashed(<<"html", "pli", "ms">>), pathDirname(root),
             replace(pathBasename(root), RootSuffixPieces, <<"_", "html", ".json">>)>>)

\* (variant) the comment is looked up beside the trees of the authors
commentPathNoAuthor(selectedAuthor, translationRelativePath) ==
  pathJoin(<<Slashed(BILARA_BASE), Slashed(<<"comment", "en">>),
             pathDirname(translationRelativePath),
             replace(pathBasename(translationRelativePath), <<"translation-">>, <<"comment-">>)>>)

\* 5. Context Data: Comments
commentPath(selectedAuthor, translationRelativePath) ==
  pathJoin(<<Slashed(BILARA_BASE), Slashed(<<"comment", "en">>), <<selectedAuthor>>,
             pathDirname(translationRelativePath),
             replace(pathBasename(translationRelativePath), <<"translation-">>, <<"comment-">>)>>)

\* 6. Context Data: Variants
variantPath(root) ==
  pathJoin(<<Slashed(BILARA_BASE), Slashed(<<"variant", "pli", "ms">>), pathDirname(root),
             replace(pathBasename(root), <<"root-">>, <<"variant-">>)>>)

\* 7. Context Data: Reference
referencePath(root) ==
  pathJoin(<<Slashed(BILARA_BASE), Slashed(<<"reference", "pli", "ms">>), pathDirname(root),
             replace(pathBasename(root), RootSuffixPieces, <<"_", "reference", ".json">>)>>)

\* steps 4-7 of the route for the entry of the request: a facet without its
\* source path (no root, no selected translation) gets no path
InferFacetPaths ==
  /\ ~inferred.done
  /\ LET hasRoot  == pathReq.root # <<>>
         hasTrans == pathReq.author # "" /\ pathReq.translation # <<>>
     IN  inferred' =
           [done      |-> TRUE,
            html      |-> IF hasRoot THEN htmlPath(pathReq.root) ELSE <<>>,
            comment   |-> IF hasTrans THEN commentPath(pathReq.author, pathReq.translation)
                          ELSE <<>>,
            variant   |-> IF hasRoot THEN variantPath(pathReq.root) ELSE <<>>,
            reference |-> IF hasRoot THEN referencePath(pathReq.root) ELSE <<>>]
  /\ UNCHANGED <<disk, diskBefore, pruned, menus, menusBefore, flattened, pathReq>>
  /\ UNCHANGED notFs

\* identifiers and directories of the corpus
PathIds  == {"dn1", "mn1", "an1.1-10", "pli-tv-kd1"}
PathDirs == {<<>>, <<"sutta", "dn">>, <<"vinaya", "pli-tv-kd">>}

\* the entries of the index: a root, a translation of the selected author, or
\* both
PathReqs ==
  {[dir |-> d, id |-> id, author |-> IF t THEN a ELSE "",
    root |-> IF r THEN RootRel(d, id) ELSE <<>>,
    translation |-> IF t THEN TransRel(d, id, a) ELSE <<>>] :
     d \in PathDirs, id \in PathIds, a \in Authors,
     r \in BOOLEAN, t \in BOOLEAN} \ {NoPathReq}

InitPaths ==
  /\ pathReq \in {q \in PathReqs : q.root # <<>> \/ q.translation # <<>>}
  /\ inferred = NoInferred
  /\ disk = {}
  /\ diskBefore = {}
  /\ pruned = FALSE
  /\ menus = NoTree
  /\ menusBefore = NoTree
  /\ flattened = FALSE
  /\ CtlIdle
  /\ ResIdle
  /\ PipeIdle
  /\ BfIdle
  /\ IxIdle
  /\ SrvIdle

NextPaths == InferFacetPaths

SpecPaths == InitPaths /\ [][NextPaths]_vars

(***************************************************************************)
(* Claims about the build controller                                       *)
(***************************************************************************)

\* C1: in every reachable state at most one pipeline worker process is alive,
\* whatever the interleaving of trigger requests, the bootstrap timer and
\* worker exits.
C1_AtMostOneWorkerAlive == Cardinality(Alive) <= 1

\* C2: a trigger handled while a run is in progress (a worker process is
\* alive) is answered 409, spawns no worker and leaves the log ring and the
\* run handle as they were.
C2_TriggerWhileRunningRejected ==
  trig.busy =>
    /\ trig.status = 409
    /\ ~trig.spawned
    /\ trig.logsKept
    /\ trig.handleKept

\* the workers forked so far, and the worker of the current run: the one
\* forked last
Forked == {p \in Pids : procs[p] # "unborn"}

CurrentWorker == CHOOSE p \in Forked : \A q \in Forked : q <= p

\* C21: while the worker of the current run is alive the status route reports
\* running = true; once it has terminated, with whatever exit code, the status
\* route reports running = false and the trigger route takes the next trigger.
C21_StatusFollowsCurrentWorker ==
  Forked # {} =>
    /\ procs[CurrentWorker] = "alive" => BuildStatusRunning
    /\ procs[CurrentWorker] = "exited" => (~BuildStatusRunning /\ ~IsBuildRunning)

\* C30: a trigger handled while the pipeline script is missing is answered
\* 500, forks no worker, leaves the log ring as it was and leaves the status
\* route reporting running = false; a trigger answered 202 forked a worker.
C30_MissingScriptStartFailed ==
  [][PostBuild =>
       /\ ~scriptExists =>
            /\ trig'.status = 500
            /\ ~trig'.spawned
            /\ trig'.logsKept
            /\ ~BuildStatusRunning'
       /\ trig'.status = 202 => trig'.spawned]_vars

\* C34: once a run has been accepted, every line of the log ring was appended
\* for the worker of that run; no output of an earlier worker is in it, output
\* delivered after that worker's exit event included.
C34_LogHoldsOnlyCurrentRun ==
  Forked # {} => \A i \in 1..Len(buildLogs) : buildLogs[i].run = CurrentWorker

(***************************************************************************)
(* Claims about the resolver                                               *)
(***************************************************************************)
Answered == resp.status # 0

\* the author the priority chain of the specification selects
ChainAuthor(entry, requestedAuthor) ==
  LET keys == entry.translations.keys
      has(a) == \E i \in 1..Len(keys) : keys[i] = a
  IN  IF Len(keys) = 0 THEN "null"
      ELSE IF requestedAuthor # "" /\ has(requestedAuthor) THEN requestedAuthor
      ELSE IF has("sujato") THEN "sujato"
      ELSE IF has("brahmali") THEN "brahmali"
      ELSE keys[1]

\* C3: for an identifier of the index the selected author is the one the
\* priority chain gives (requested if among the entry's authors, else sujato,
\* else brahmali, else the first, none without translations), and a requested
\* author that is not among the entry's authors never makes the request fail.
C3_AuthorPriorityChain ==
  (Answered /\ JsHasOwn(suttaIndex, req.uid)) =>
    /\ resp.status = 200
    /\ resp.author_uid = ChainAuthor(suttaIndex.val[req.uid], req.author)

\* C4: every identifier that is not a key of the loaded index is answered
\* NotFound (404), built-in property names such as "constructor" included.
C4_UnknownIdentifierNotFound ==
  (Answered /\ ~JsHasOwn(suttaIndex, req.uid)) => resp.status = 404

\* C5: for an identifier of the index the request succeeds whatever facet
\* files are missing or unparsable; each such facet is the empty object and
\* every facet whose file is readable carries that file's content.
C5_MissingFacetsResolveEmpty ==
  (Answered /\ JsHasOwn(suttaIndex, req.uid)) =>
    /\ resp.status = 200
    /\ \A f \in Facets :
         LET entry == suttaIndex.val[req.uid]
             applies == IF f \in {"translation", "comment"}
                        THEN Len(entry.translations.keys) > 0
                        ELSE RootSet(entry)
         IN  /\ req.fs[f] # "ok" => resp.facets[f] = NoContent
             /\ (req.fs[f] = "ok" /\ applies) => resp.facets[f].kind = "json"

KeySet(obj) == {obj.keys[i] : i \in 1..Len(obj.keys)}

\* C31: in every bundle the resolver returns, available_authors is exactly
\* the keys of the entry's translations map, the selected author is null or
\* one of them, and it is null only when the entry has no translation.
C31_SelectedAuthorAmongAvailable ==
  resp.status = 200 =>
    LET entry == EntryOf(JsGet(suttaIndex, req.uid))
        avail == {resp.available_authors[i] : i \in 1..Len(resp.available_authors)}
    IN  /\ resp.available_authors = entry.translations.keys
        /\ resp.author_uid = "null" \/ resp.author_uid \in avail
        /\ resp.author_uid = "null" => KeySet(entry.translations) = {}

\* a bundle for an entry with two translators, answered by the fall-back
\* because the requested author is not one of them
C31_Witness ==
  /\ resp.status = 200
  /\ Len(resp.available_authors) = 2
  /\ req.author \notin {"", resp.author_uid}
  /\ resp.author_uid \in KeySet(suttaIndex.val[req.uid].translations)

(***************************************************************************)
(* Claims about the pipeline                                               *)
(***************************************************************************)
Has(ev) == \E i \in 1..Len(events) : events[i] = ev

Before(a, b) ==
  \E i, j \in 1..Len(events) : i < j /\ events[i] = a /\ events[j] = b

StepNames == <<"step1", "step2", "step3", "step4", "step5", "step6", "step7", "step8">>

IsStep(ev) == \E k \in 1..Len(StepNames) : StepNames[k] = ev

\* the stages the latest run started, in the order it started them
RECURSIVE StepsOf(_)
StepsOf(evs) ==
  IF evs = <<>> THEN <<>>
  ELSE IF IsStep(Head(evs)) THEN <<Head(evs)>> \o StepsOf(Tail(evs))
  ELSE StepsOf(Tail(evs))

IsPrefix(p, q) == Len(p) <= Len(q) /\ \A i \in 1..Len(p) : p[i] = q[i]

\* no stage is started after the event ev
NoStepAfter(ev) ==
  \A i, j \in 1..Len(events) : (i < j /\ events[i] = ev) => ~IsStep(events[j])

\* the run ended failed, started no stage after the failure ev and wrote no stamp
AbortedAt(ev) ==
  /\ pc = "exited"
  /\ exitCode = "1"
  /\ NoStepAfter(ev)
  /\ ~Has("stamped")

\* C6: a run writes the version stamp only after its own bundling completed;
\* the stamp on disk is never one written by a run whose bundling failed or
\* was not reached.
C6_StampOnlyAfterBundle ==
  /\ Has("stamped") => Before("bundled", "stamped")
  /\ (versionFile.exists /\ versionFile.run = run) => Has("bundled")

C6_Witness ==
  /\ Has("stamped")
  /\ versionFile.exists
  /\ versionFile.run = run

\* C7: in every reachable state, mid-run and after a failed run included, the
\* version stamp on disk names the revision the archive on disk was produced
\* from.  (A stamp whose commit is "unknown" is not counted against the claim.)
C7_StampMatchesBundle ==
  (versionFile.exists /\ versionFile.commit # 0) =>
    (zipFile.state = "complete" /\ zipFile.rev = versionFile.commit)

\* C8: when the pull reports no new changes and the index file exists, the run
\* ends succeeded (exit code 0) and no stage after step 1 is ever started.
C8_ShortCircuit ==
  Has("index_exists") =>
    /\ pc = "exited"
    /\ exitCode = "0"
    /\ events = <<"step1", "up_to_date", "index_exists">>

C8_Witness == Has("index_exists") /\ pc = "exited" /\ indexFile

\* C9 as stated: any failure inside stages 3-7 (a failed menu fetch and a
\* failed flatten included) ends the run failed with a non-zero exit code, no
\* later stage started and no version stamp written.
C9_AnyStageFailureAborts ==
  /\ Has("menu_fetch_failed") => AbortedAt("menu_fetch_failed")
  /\ Has("flatten_failed") => AbortedAt("flatten_failed")
  /\ Has("stage_failed") => AbortedAt("stage_failed")

\* C9 amended: when the script of one of stages 3-6 exits non-zero, or the
\* bundler of stage 7 throws or rejects, the run ends failed with exit code 1,
\* no later stage is started and the version stamp is not written.
C9_FatalStageFailureAborts ==
  Has("stage_failed") => AbortedAt("stage_failed")

C9_Witness ==
  /\ Has("stage_failed")
  /\ Has("step5")
  /\ ~Has("step6")
  /\ pc = "exited"

\* C10: after a failed pull of an initialized corpus the run goes on: it starts
\* the stages in the fixed order from step 2, it ends succeeded only with all
\* of steps 2-8 done, and it ends failed only through a failure of a later
\* stage.
C10_PullFailureNotFatal ==
  Has("pull_failed") =>
    /\ IsPrefix(StepsOf(events), StepNames)
    /\ pc = "exited" =>
         \/ exitCode = "0" /\ StepsOf(events) = StepNames /\ Has("stamped")
         \/ exitCode = "1" /\ Has("stage_failed")

C10_Witness ==
  /\ Has("pull_failed")
  /\ pc = "exited"
  /\ exitCode = "0"
  /\ StepsOf(events) = StepNames

FirstSteps(n) == SubSeq(StepNames, 1, n)

\* C22: in every run the stages are started in the fixed order sync, commit
\* metadata, menu fetch and flatten, pruning, index build, backfill, bundling,
\* version stamp, each at most once; the run stands at a stage only when all
\* the stages before it were started and have finished, and the stamp is not
\* started while the bundler is still writing.
C22_StagesInFixedOrder ==
  /\ IsPrefix(StepsOf(events), StepNames)
  /\ \A k \in 1..Len(StepNames) :
       pc = StepNames[k] => StepsOf(events) = FirstSteps(k - 1)
  /\ pc = "zipping" => (StepsOf(events) = FirstSteps(7) /\ ~Has("bundled"))
  /\ Has("step8") => Before("bundled", "step8")

\* a run that cloned the corpus and went through all eight stages
C22_Witness ==
  /\ Has("cloned")
  /\ StepsOf(events) = StepNames
  /\ pc = "exited"
  /\ exitCode = "0"

\* C32: whenever a run ends succeeded (exit code 0), a complete bundle
\* archive and a version stamp for the revision of the local corpus are on
\* disk, whatever the earlier runs did.
C32_SucceededRunHasBundleAndStamp ==
  (pc = "exited" /\ exitCode = "0") =>
    /\ zipFile.state = "complete"
    /\ zipFile.rev = localRev
    /\ versionFile.exists
    /\ versionFile.commit = localRev

(***************************************************************************)
(* Claims about the legacy backfill                                        *)
(***************************************************************************)

\* C12: across the invocations of the backfill, no network fetch is issued
\* for an identifier that has an entry in the legacy map at that moment, be it
\* loaded at the start of the invocation or added earlier in the invocation.
C12_NoFetchForMappedIdentifier ==
  [][lastFetch' # lastFetch => lastFetch'.uid \notin legacyMap]_vars

\* a second invocation loaded entries of the first, added one of its own and
\* fetched for an identifier outside the map
C12_Witness ==
  /\ bfRun = 2
  /\ loaded # {}
  /\ legacyMap # loaded
  /\ lastFetch.run = 2
  /\ \E u \in loaded : u > 2

\* the additions of the latest invocation that are in the file on disk
AdditionsOnDisk == (legacyMap \ loaded) \cap legacyFile.uids

\* C13: when the process is killed after N >= 10 successful additions, the
\* legacy map file still holds every entry persisted before the run and at
\* least floor(N/10)*10 of the run's additions.
C13_KillLosesAtMostLastBatch ==
  (bfPc = "killed" /\ count >= FlushEvery) =>
    /\ legacyFile.state = "ok"
    /\ loaded \subseteq legacyFile.uids
    /\ Cardinality(AdditionsOnDisk) >= (count \div FlushEvery) * FlushEvery

\* the latest invocation has just ended by returning from run()
RunReturns == bfPc' = "done" /\ (bfPc # "done" \/ bfRun' # bfRun)

\* C25 as stated: every invocation that returns, one that found no index file
\* included, ends with the legacy map file holding the in-memory legacy map.
C25_EveryRunEndsFlushed ==
  bfPc = "done" => legacyFile = FileWritten(legacyMap)

\* C25 amended: an invocation that found the index file and returns has
\* written the in-memory legacy map to the file as its last step, whether or
\* not it added anything; an invocation that found no index file returns
\* without touching the file.
C25_FlushedUnlessIndexMissing ==
  [][RunReturns =>
       IF bfIndex.exists
       THEN bfPc = "final" /\ legacyFile' = FileWritten(legacyMap')
       ELSE legacyFile' = legacyFile]_vars

\* an invocation whose fetches all failed ended over an absent map file
C25_Witness ==
  /\ bfPc = "done"
  /\ bfIndex.exists
  /\ count = 0
  /\ fetched # {}
  /\ loaded = {}
  /\ legacyFile = FileWritten({})

\* the invocation went through the whole loop and returned
RanToEnd == bfPc = "done" /\ bfIndex.exists

\* C26: the identifiers an invocation issues a fetch for are exactly the
\* leaves of the menus that are neither in the index nor in the legacy map
\* the invocation loaded; no fetch is ever issued for an identifier of the
\* index.
C26_FetchSetIsLeavesMinusKnown ==
  /\ fetched \cap bfIndex.uids = {}
  /\ fetched \subseteq (Leaves \ loaded)
  /\ RanToEnd => fetched = (Leaves \ bfIndex.uids) \ loaded

\* an index and a loaded map that each remove a leaf from the working set
C26_Witness ==
  /\ RanToEnd
  /\ bfIndex.uids = {1}
  /\ loaded = {2}
  /\ fetched = Leaves \ {1, 2}

\* C27: a fetch that fails (no suttaplex, no English translation, no text)
\* adds no entry to the legacy map, writes nothing and leaves the loop going
\* with the remaining identifiers; an invocation returns only once every
\* identifier of its working set was visited.
C27_FailedFetchSkipsOnlyThatLeaf ==
  /\ [][(lastFetch' # lastFetch /\ ~lastFetch'.ok) =>
          /\ legacyMap' = legacyMap
          /\ lastFetch'.uid \notin legacyMap'
          /\ legacyFile' = legacyFile
          /\ bfPc' = "loop"
          /\ todo' = Tail(todo)]_vars
  /\ [](RanToEnd => todo = <<>>)

\* a failed fetch in the middle of an invocation, successes after it
C27_Witness ==
  /\ RanToEnd
  /\ ~lastFetch.ok
  /\ lastFetch.run = bfRun
  /\ count > 0
  /\ \E u \in fetched : u \notin legacyMap /\ \E v \in legacyMap \ loaded : v > u

\* the latest invocation read the index and the legacy map file
ReadMap == bfRun > 0 /\ bfIndex.exists

\* C33: every entry of the legacy map, in memory or in the file on disk, that
\* was not in the file when the invocation loaded it belongs to a document the
\* invocation has written in full before; this holds in every state, the
\* states a kill leaves behind included.
C33_DocumentBeforeMapEntry ==
  ReadMap =>
    /\ (legacyMap \ loaded) \subseteq legacyDocs.full
    /\ (legacyFile.uids \ loaded) \subseteq legacyDocs.full

\* a kill after the incremental save put the additions of the invocation on disk
C33_Witness ==
  /\ ReadMap
  /\ bfPc = "killed"
  /\ legacyFile.state = "ok"
  /\ Cardinality(legacyFile.uids \ loaded) >= FlushEvery

\* the identifiers the invocation attempted and saved no document for
FailedAttempts == fetched \ legacyDocs.full

\* C35: the "Failed" figure an invocation prints at its end is the number of
\* identifiers it attempted and saved no legacy document for; it is never
\* negative, and with "Newly fetched" it sums to the number attempted.
C35_FailedFigureCountsFailures ==
  report.made =>
    /\ report.failed = Cardinality(FailedAttempts)
    /\ report.failed >= 0
    /\ report.newly + report.failed = Cardinality(fetched)

(***************************************************************************)
(* Claims about the index builder                                          *)
(***************************************************************************)
IndexedUids == {"dn1", "mn1", "zz9", "notes"}

\* identifiers of the root files the walk found
RootUidsOf(c) ==
  {UidOf(c.root[i].name) : i \in {j \in 1..Len(c.root) : endsWith(c.root[j].name, RootSuffix)}}

\* the translation files of identifier u the walk found under author a
TransFilesOf(c, a, u) ==
  {c.trans[a][i] : i \in {j \in 1..Len(c.trans[a]) :
                            /\ InSeq(c.authors, a)
                            /\ includes(c.trans[a][j].name, TransInfix)
                            /\ UidOf(c.trans[a][j].name) = u}}

AuthorsOf(c, u) == {a \in BuilderAuthors : TransFilesOf(c, a, u) # {}}

Built == builds >= 1

\* C14: in every index build() writes, an identifier has an entry exactly when
\* the walk found a root file or a translation file for it; no entry has a
\* null root and no translation; and a translation whose identifier has no
\* root gives an entry with root null and the translation under its author.
C14_EntryIffDiscovered ==
  Built =>
    LET idx == indexOut.index
        c   == builtFrom
    IN  \A u \in IndexedUids :
          /\ JsHasOwn(idx, u) <=> (u \in RootUidsOf(c) \/ AuthorsOf(c, u) # {})
          /\ JsHasOwn(idx, u) =>
               (RootSet(idx.val[u]) \/ Len(idx.val[u].translations.keys) > 0)
          /\ \A a \in AuthorsOf(c, u) :
               u \notin RootUidsOf(c) =>
                 /\ JsHasOwn(idx, u)
                 /\ idx.val[u].root = <<"null">>
                 /\ JsHasOwn(idx.val[u].translations, a)
                 /\ \E f \in TransFilesOf(c, a, u) :
                      idx.val[u].translations.val[a] = <<f.dir>> \o f.name

\* an index with an entry that has a root and one that has only a translation
C14_Witness ==
  /\ Built
  /\ JsHasOwn(indexOut.index, "dn1")
  /\ RootSet(indexOut.index.val["dn1"])
  /\ JsHasOwn(indexOut.index, "mn1")
  /\ ~RootSet(indexOut.index.val["mn1"])

RootFilesOnDisk(c) == {FullPath(ROOT_DIR, c.root[i]) : i \in 1..Len(c.root)}

TransFilesOnDisk(c) ==
  UNION {{FullPath(TRANSLATION_DIR \o <<a>>, c.trans[a][i]) : i \in 1..Len(c.trans[a])} :
           a \in BuilderAuthors}

LastTwo(path) == SubSeq(path, Len(path) - 1, Len(path))

\* C15: for every entry of the index build() wrote from the corpus on disk,
\* the root path the route resolves is an existing root file named
\* <identifier>_root-pli-ms.json, and for every author key of the entry the
\* translation path the route resolves for that author is an existing file.
C15_BuilderResolverPathsAgree ==
  (Built /\ corpus = builtFrom) =>
    \A u \in IndexedUids :
      JsHasOwn(indexOut.index, u) =>
        LET e == indexOut.index.val[u]
        IN  /\ RootSet(e) =>
                 /\ ResolverRootPath(e) \in RootFilesOnDisk(corpus)
                 /\ LastTwo(ResolverRootPath(e)) = RootName(u)
            /\ \A i \in 1..Len(e.translations.keys) :
                 ResolverTransPath(e, e.translations.keys[i]) \in TransFilesOnDisk(corpus)

\* an entry with a root and the translations of two authors
C15_Witness ==
  /\ Built
  /\ corpus = builtFrom
  /\ JsHasOwn(indexOut.index, "dn1")
  /\ RootSet(indexOut.index.val["dn1"])
  /\ Len(indexOut.index.val["dn1"].translations.keys) = 2


\* same identifiers, same root path and same author-to-path map per identifier
SameIndex(i1, i2) ==
  /\ KeySet(i1) = KeySet(i2)
  /\ \A u \in KeySet(i1) :
       /\ i1.val[u].root = i2.val[u].root
       /\ KeySet(i1.val[u].translations) = KeySet(i2.val[u].translations)
       /\ \A a \in KeySet(i1.val[u].translations) :
            i1.val[u].translations.val[a] = i2.val[u].translations.val[a]

\* C16: a build of a corpus equal to the one the first build walked writes an
\* index equal to the first one, whatever index file was on disk before it.
C16_RebuildGivesEqualIndex ==
  (builds >= 2 /\ builtFrom = firstBuild.corpus) =>
    SameIndex(indexOut.index, firstBuild.index)

\* the corpus was changed and changed back between two builds
C16_Witness ==
  /\ builds >= 2
  /\ edits >= 2
  /\ builtFrom = firstBuild.corpus
  /\ KeySet(indexOut.index) # {}

\* the relative paths of the first and of the last root file of identifier u
\* in the walk, and the number of such files
RootPathsOf(c, u) ==
  LET at == {i \in 1..Len(c.root) :
               endsWith(c.root[i].name, RootSuffix) /\ UidOf(c.root[i].name) = u}
  IN  [first |-> IF at = {} THEN <<>>
                 ELSE LET i == CHOOSE i \in at : \A j \in at : i <= j
                      IN  <<c.root[i].dir>> \o c.root[i].name,
       last  |-> IF at = {} THEN <<>>
                 ELSE LET i == CHOOSE i \in at : \A j \in at : j <= i
                      IN  <<c.root[i].dir>> \o c.root[i].name,
       n     |-> Cardinality(at)]

\* C23 as stated: of two root files with the same identifier the entry
\* records the path of the one the walk encountered last.
C23_DuplicateRootLastWins ==
  Built =>
    \A u \in IndexedUids :
      RootPathsOf(builtFrom, u).n >= 1 =>
        indexOut.index.val[u].root = RootPathsOf(builtFrom, u).last

\* C23 amended: of two root files with the same identifier the entry records
\* the path of the one the walk encountered first; later ones are ignored.
C23_DuplicateRootFirstWins ==
  Built =>
    \A u \in IndexedUids :
      RootPathsOf(builtFrom, u).n >= 1 =>
        /\ JsHasOwn(indexOut.index, u)
        /\ indexOut.index.val[u].root = RootPathsOf(builtFrom, u).first

\* an index built from a walk that listed dn1 under sutta and under vinaya
C23_Witness ==
  /\ Built
  /\ RootPathsOf(builtFrom, "dn1").n = 2
  /\ RootPathsOf(builtFrom, "dn1").first # RootPathsOf(builtFrom, "dn1").last
  /\ JsHasOwn(indexOut.index, "dn1")

(***************************************************************************)
(* Claims about the server and the files the pipeline writes               *)
(***************************************************************************)

\* C17: a request received after a run rebuilt the index file and ended with
\* code 0 is answered with a bundle, not with 404, for every identifier of
\* that index file, without a restart of the server.
C17_ResolverSeesNewIndex ==
  (Answered /\ (\E p \in wrote : procExit[p] = "0") /\ JsHasOwn(indexOut.index, req.uid)) =>
    resp.status # 404

\* C18: after a successful run the download endpoint serves the archive that
\* run produced and the data-version endpoint serves the stamp that run wrote.
C18_EndpointsServeLatestArtifacts ==
  /\ (download.status # 0 /\ download.run = run /\ RunSucceeded) =>
       (download.status = 200 /\ download.zip = zipFile)
  /\ (dataVersion.status # 0 /\ dataVersion.run = run /\ RunSucceeded) =>
       (dataVersion.status = 200 /\ dataVersion.version = versionFile)

\* the last n elements of q
LastN(q, n) == IF Len(q) <= n THEN q ELSE SubSeq(q, Len(q) - n + 1, Len(q))

\* C19: after any sequence of appends the ring holds at most 1000 lines and
\* equals the most recent lines appended since the last reset, in the order
\* they were appended.
C19_RingHoldsMostRecent ==
  /\ Len(buildLogs) <= LogCap
  /\ buildLogs = LastN(appended, LogCap)

\* more lines were appended than the ring holds
C19_Witness ==
  /\ Len(appended) > LogCap
  /\ Len(buildLogs) = LogCap
  /\ buildLogs[1].at = Len(appended) - LogCap + 1

\* C20: every accepted trigger (a worker is forked) leaves the ring holding
\* only the start line of the new run, none of the lines of earlier runs.
C20_AcceptedTriggerClearsLogs ==
  [][\A p \in Pids :
       (procs[p] = "unborn" /\ procs'[p] = "alive") =>
         buildLogs' = <<[run |-> p, text |-> "start"]>>]_vars

\* a second run was accepted over the lines of the first
C20_Witness ==
  /\ trig.status = 202
  /\ ~trig.logsKept
  /\ buildProcess = 2
  /\ procs[1] = "exited"
  /\ buildLogs = <<[run |-> 2, text |-> "start"]>>

(***************************************************************************)
(* Claims about the stage scripts and the path inference                   *)
(***************************************************************************)

\* the tree the index builder, the route and the bundler read: its files,
\* relative to data/bilara-data-published
ServedTree(files) == {relative(BASE_DIR, p) : p \in {q \in files : Under(BASE_DIR, q)}}

\* under a facet directory, in the subdirectory of a locale that is not kept
OutsideAllowList(rel) ==
  \E i \in 1..Len(DIRS_TO_PROCESS) :
    /\ rel[1] = DIRS_TO_PROCESS[i].name
    /\ Len(rel) > 2
    /\ rel[2] \notin DIRS_TO_PROCESS[i].keep

\* one of the listed auxiliary files, or under a listed auxiliary directory
Auxiliary(rel) ==
  \/ Len(rel) = 1 /\ rel[1] \in FILES_TO_DELETE
  \/ Len(rel) > 1 /\ rel[1] \in DIRS_TO_DELETE

\* C24: after the pruning stage the corpus tree the index builder, the route
\* and the bundler read holds no file under a facet's subdirectory of a
\* locale outside the allow-list and none of the listed auxiliary files and
\* directories, and everything else in it (allowed locales, the legacy
\* directory, the legacy map) is as before.
C24_PruningCleansServedCorpus ==
  pruned =>
    /\ \A rel \in ServedTree(disk) : ~OutsideAllowList(rel) /\ ~Auxiliary(rel)
    /\ \A rel \in ServedTree(diskBefore) :
         (~OutsideAllowList(rel) /\ ~Auxiliary(rel)) => rel \in ServedTree(disk)

\* the menu documents (*.json) of a tree that are in a subdirectory
MenuDocsBelow(tree) ==
  {f \in tree.files : f.name[Len(f.name)] = ".json" /\ Len(f.dir) > Len(MENUS_DIR)}

\* the menu documents that were in subdirectories under the name of f
SameName(tree, f) == {g \in MenuDocsBelow(tree) : g.name = f.name}

\* no menu document in a subdirectory, no empty subdirectory, MENUS_DIR there
Flat(tree) ==
  /\ MenuDocsBelow(tree) = {}
  /\ \A d \in tree.dirs \ {MENUS_DIR} :
       (\E f \in tree.files : f.dir = d) \/ Children(tree.dirs, d) # {}
  /\ MENUS_DIR \in tree.dirs

\* C28 amended: after the flatten step every file name a menu document had in
\* a subdirectory, at any depth, names a file directly in the menus directory,
\* holding one of the documents that had that name in a subdirectory (the
\* others, and a file of that name already in the menus directory, are
\* overwritten); the other files of the menus directory and the files that
\* are no menu documents are untouched; no menu document is left in a
\* subdirectory, no subdirectory is left empty, the menus directory remains.
C28_FlattenKeepsOnePerName ==
  flattened =>
    /\ \A f \in MenuDocsBelow(menusBefore) :
         \E g \in menus.files :
           /\ g.dir = MENUS_DIR
           /\ g.name = f.name
           /\ g.doc \in {h.doc : h \in SameName(menusBefore, f)}
    /\ \A f \in menusBefore.files \ MenuDocsBelow(menusBefore) :
         (\A g \in MenuDocsBelow(menusBefore) : g.name # f.name) => f \in menus.files
    /\ Cardinality(menus.files) <= Cardinality(menusBefore.files)
    /\ Flat(menus)

\* two documents named dn.json in subdirectories and one in the menus
\* directory, beside a file that keeps its subdirectory
C28_Witness ==
  /\ flattened
  /\ \E f \in MenuDocsBelow(menusBefore) : Cardinality(SameName(menusBefore, f)) = 2
  /\ \E f \in menusBefore.files : f.dir = MENUS_DIR /\ f.name = <<"dn", ".json">>
  /\ \E f \in menus.files : f.dir # MENUS_DIR
  /\ \E f \in MenuDocsBelow(menusBefore) : Len(f.dir) = Len(MENUS_DIR) + 2
  /\ menus.dirs # menusBefore.dirs

\* C28 as stated: after the flatten step every menu document that was in a
\* subdirectory, at any depth, is directly in the menus directory, no menu
\* document is left in a subdirectory, no subdirectory is left empty and the
\* menus directory itself still exists.
C28_FlattenKeepsEveryDocument ==
  flattened =>
    /\ \A f \in MenuDocsBelow(menusBefore) :
         \E g \in menus.files : g.dir = MENUS_DIR /\ g.name = f.name /\ g.doc = f.doc
    /\ MenuDocsBelow(menus) = {}
    /\ \A d \in menus.dirs \ {MENUS_DIR} :
         (\E f \in menus.files : f.dir = d) \/ Children(menus.dirs, d) # {}
    /\ MENUS_DIR \in menus.dirs

\* the file named by the pieces name, in directory d of the given facet tree
InTree(tree, d, name) == Slashed(BILARA_BASE \o tree \o d) \o <<Sep>> \o name

\* C29: for the root path d/<id>_root-pli-ms.json the route derives
\* d/<id>_html.json in the HTML tree, d/<id>_variant-pli-ms.json in the
\* variant tree and d/<id>_reference.json in the reference tree; for the
\* translation path d/<id>_translation-en-<a>.json it derives
\* d/<id>_comment-en-<a>.json in the comment tree of author a; d is kept.
C29_FacetPathsFollowConvention ==
  inferred.done =>
    LET d  == pathReq.dir
        id == pathReq.id
        a  == pathReq.author
    IN  /\ pathReq.root # <<>> =>
             /\ inferred.html = InTree(<<"html", "pli", "ms">>, d, <<id, "_", "html", ".json">>)
             /\ inferred.variant =
                  InTree(<<"variant", "pli", "ms">>, d, <<id, "_", "variant-", "pli-ms", ".json">>)
             /\ inferred.reference =
                  InTree(<<"reference", "pli", "ms">>, d, <<id, "_", "reference", ".json">>)
        /\ pathReq.translation # <<>> =>
             inferred.comment =
               InTree(<<"comment", "en", a>>, d, <<id, "_", "comment-", "en-", a, ".json">>)

\* an entry with a root and a translation in a directory two levels deep
C29_Witness ==
  /\ inferred.done
  /\ pathReq.dir = <<"sutta", "dn">>
  /\ pathReq.root # <<>>
  /\ pathReq.translation # <<>>
  /\ inferred.comment # <<>>
  /\ inferred.variant # inferred.reference

====
